---- MODULE Spec2Model ----
(***************************************************************************)
(* Vendor-bidding platform: the bid lifecycle handlers of the backend       *)
(* (routes/bid.routes.ts, Supabase version) and the project update handler  *)
(* (routes/project.routes.ts), modelled as concurrent request handlers over *)
(* a shared store.  Every `await` on the store is one atomic step; the code *)
(* between two awaits runs with the await that precedes it (Node does not   *)
(* preempt synchronous code).  A request's arrival and its middleware touch *)
(* no bid or project row, so they are taken together with the handler's     *)
(* first store read.                                                        *)
(***************************************************************************)
EXTENDS Integers, Sequences, FiniteSets, TLC

(* ------------------------------ bounds --------------------------------- *)
MaxBids == 2
MaxProperties == 3
MaxMessages == 2
MaxDocs == 2

(* ------------------------------ domains -------------------------------- *)
Managers == {"m1", "m2"}
Vendors == {"v1", "v2"}
Admins == {"a1"}
Users == Managers \cup Vendors \cup Admins
Projects == {1, 2}
PropertyIds == 1..MaxProperties
Reqs == {1, 2}
BidIds == 1..MaxBids

UserRole == [u \in Users |-> IF u \in Managers THEN "PROPERTY_MANAGER"
                          ELSE IF u \in Vendors THEN "VENDOR" ELSE "ADMIN"]
ProjectStatus == {"DRAFT", "OPEN", "IN_REVIEW", "AWARDED", "IN_PROGRESS", "COMPLETED", "CANCELLED"}
BidStatus == {"PENDING", "ACCEPTED", "REJECTED", "WITHDRAWN"}

\* request bodies
Undefined == 0
Amounts == {10, 20}
CreateAmounts == {10}
StatusInputs == BidStatus
ProjectStatusInputs == {"", "OPEN", "CANCELLED"}
DefaultBidStatus == "PENDING"
DefaultProjectStatus == "DRAFT"
ProjectType == {"CONSTRUCTION", "MAINTENANCE", "EVENT", "LANDSCAPING", "CLEANING", "OTHER"}
\* the type column of the project rows (no handler modelled here writes it
\* after the insert, and no check reads it)
ProjectTypeOf(p) == IF p = 1 THEN "CONSTRUCTION" ELSE "MAINTENANCE"
\* the status and type query parameters of GET /projects ("" = not given)
StatusFilters == {"", "OPEN", "CANCELLED"}
TypeFilters == {"", "CONSTRUCTION"}

\* projStatus: projects.status ("" where there is no row); projRows: the
\* property_id and manager_id columns of the projects table; properties:
\* properties.manager_id ("" where there is no row); bids: the bids table;
\* reqs: the handlers that are running and what they answered; pre: the store
\* as a status change found it
VARIABLES projStatus, bids, reqs, pre, properties, projRows, messages,
          documents, storage, notifications, conns, delivered, socket, sockets

vars == <<projStatus, bids, reqs, pre, properties, projRows, messages,
          documents, storage, notifications, conns, delivered, socket, sockets>>

\* the documents table and the 'documents' storage bucket
docs == <<documents, storage>>

\* Socket.IO: conns and delivered are the server's connections and its last
\* emission; socket and sockets are the web client's SocketService and the
\* sockets it has created
realtime == <<conns, delivered, socket, sockets>>

\* the tables the bid handlers never write
ownership == <<properties, projRows>>

NoProject == [property_id |-> 0, manager_id |-> ""]
ProjectExists(p) == p \in Projects /\ projRows[p] # NoProject

\* projects.manager_id: set once by POST /projects, never written again
ProjectManager == [p \in Projects |-> projRows[p].manager_id]

\* the local `bid` of a handler: the columns of the row it read that it uses later
NoBid == [project_id |-> 0, vendor_id |-> ""]
\* the :userId path parameter of GET /messages/with/:userId is text that the
\* handler pastes into a PostgREST filter.  The text is kept split at the
\* characters that have a meaning there: first is the text up to the first
\* ")" (all of it when there is none, closes = FALSE); after a ")" come the
\* complete conditions more and the conditions open of a group the text leaves
\* unclosed
PlainParam(u) == [first |-> u, closes |-> FALSE, more |-> {}, open |-> {}]
IdleReq == [kind |-> "idle", pc |-> "done", user |-> "", id |-> 0, status |-> "",
            amount |-> Undefined, bid |-> NoBid, manager_id |-> "", created |-> 0,
            notified |-> {}, res |-> 0, rows |-> {}, type |-> "",
            receiver |-> "", param |-> PlainParam(""), content |-> "", bidId |-> 0]

(* ------------------------------ store ---------------------------------- *)
\* .from('bids').select(...).eq('id', id).single()
BidExists(id) == id \in 1..Len(bids)

BidRow(id) == [project_id |-> bids[id].project_id, vendor_id |-> bids[id].vendor_id]

\* .eq('project_id', p).eq('vendor_id', v): the matching rows
BidsOf(p, v) == {i \in 1..Len(bids) : bids[i].project_id = p /\ bids[i].vendor_id = v}

\* .single() yields data only when exactly one row matches; the handler
\* ignores the error and tests the data alone
SingleExisting(p, v) == Cardinality(BidsOf(p, v)) = 1

InFlight(r) == reqs[r].pc # "done"

\* a new request is served by the lowest free handler slot (slots are interchangeable)
Free(r) == ~InFlight(r) /\ \A q \in Reqs : q < r => InFlight(q)

\* res.status(code).json(body): the handler returns and its locals go out of
\* scope.  What stays of the request is the route, the status code, the id of
\* the bid row a submission inserted and the notification rows it inserted.
Response(req, code) == [IdleReq EXCEPT !.kind = req.kind, !.res = code,
                                       !.created = req.created,
                                       !.notified = req.notified]

Respond(r, code) == reqs' = [reqs EXCEPT ![r] = Response(reqs[r], code)]

Goto(r, label) == reqs' = [reqs EXCEPT ![r].pc = label]

\* bid rows that requests in flight will still insert
PendingInserts == Cardinality({r \in Reqs : reqs[r].kind \in {"createBid", "prismaCreateBid"}
                                             /\ InFlight(r)
                                             /\ reqs[r].created = 0})

(* ------------------------------ requests ------------------------------- *)
\* authenticate + authorize(...roles) (middleware/auth.ts) run before the
\* handler: a requester whose role is not listed gets 403 and nothing runs.
Authorize(u, roles) == UserRole[u] \in roles

NewReq(kind, u, id) == [IdleReq EXCEPT !.kind = kind, !.user = u, !.id = id]

(* POST /bids *)
ProjectAcceptsBidsUnlessCancelled(status) == status # "CANCELLED"

\* if (project.status !== 'OPEN') return res.status(400)...
ProjectAcceptsBids(status) == status = "OPEN"

\* const { data: project } = ...from('projects').select(...).eq('id', projectId).single()
CreateBidReadProject(r, u, p, amount) ==
    /\ Free(r)
    /\ LET req == [NewReq("createBid", u, p) EXCEPT !.amount = amount] IN
       reqs' = [reqs EXCEPT ![r] =
                 IF ~Authorize(u, {"VENDOR"}) THEN Response(req, 403)
                 ELSE IF ~ProjectExists(p) THEN Response(req, 404)
                 ELSE IF ~ProjectAcceptsBids(projStatus[p]) THEN Response(req, 400)
                 ELSE [req EXCEPT !.pc = "checkExisting",
                                  !.manager_id = ProjectManager[p]]]
    /\ UNCHANGED <<projStatus, bids>>

\* const { data: existingBid } = ...eq('project_id', projectId).eq('vendor_id', userId).single()
CreateBidCheckExisting(r) ==
    /\ reqs[r].kind = "createBid" /\ reqs[r].pc = "checkExisting"
    /\ IF SingleExisting(reqs[r].id, reqs[r].user) THEN Respond(r, 400)
       ELSE Goto(r, "insertBid")
    /\ UNCHANGED <<projStatus, bids, pre>>

NewBid(p, v, amount) ==
    [project_id |-> p, vendor_id |-> v, status |-> DefaultBidStatus, amount |-> amount]

\* ...from('bids').insert({...}).select(...).single();
\* if (bidError || !bid) return res.status(500)...
\* ok: the store carried the operation out (a Supabase call that fails returns
\* { data: null, error } and writes nothing)
CreateBidInsert(r, ok) ==
    /\ reqs[r].kind = "createBid" /\ reqs[r].pc = "insertBid"
    /\ IF ok
       THEN /\ bids' = Append(bids, NewBid(reqs[r].id, reqs[r].user, reqs[r].amount))
            /\ reqs' = [reqs EXCEPT ![r].pc = "notify", ![r].created = Len(bids) + 1]
       ELSE /\ bids' = bids
            /\ Respond(r, 500)
    /\ UNCHANGED <<projStatus, pre>>

\* await ...from('notifications').insert({ user_id: project.manager_id, type: 'bid_received', ... })
\* (the result of the insert is not looked at)
CreateBidNotify(r, ok) ==
    /\ reqs[r].kind = "createBid" /\ reqs[r].pc = "notify"
    /\ reqs' = [reqs EXCEPT ![r].pc = "emit", ![r].notified =
                  IF ok THEN @ \cup {[user_id |-> reqs[r].manager_id, type |-> "bid_received"]}
                  ELSE @]
    /\ UNCHANGED <<projStatus, bids, pre>>

\* io.to(`user_${project.manager_id}`).emit(...); res.status(201).json(bid)
CreateBidEmit(r) ==
    /\ reqs[r].kind = "createBid" /\ reqs[r].pc = "emit"
    /\ Respond(r, 201)
    /\ UNCHANGED <<projStatus, bids, pre>>

(* POST /bids, Prisma version (routes/notification.routes.ts, second part) *)
\* prisma.project.findUnique({ where: { id: projectId } }); 404; status !== 'OPEN' 400
PrismaCreateBidReadProject(r, u, p, amount) ==
    /\ Free(r)
    /\ LET req == [NewReq("prismaCreateBid", u, p) EXCEPT !.amount = amount] IN
       reqs' = [reqs EXCEPT ![r] =
                 IF ~Authorize(u, {"VENDOR"}) THEN Response(req, 403)
                 ELSE IF ~ProjectExists(p) THEN Response(req, 404)
                 ELSE IF ~ProjectAcceptsBids(projStatus[p]) THEN Response(req, 400)
                 ELSE [req EXCEPT !.pc = "checkExisting",
                                  !.manager_id = ProjectManager[p]]]
    /\ UNCHANGED <<projStatus, bids>>

\* prisma.bid.findFirst({ where: { projectId, vendorId: userId } }); if (existingBid) 400
PrismaCreateBidCheckExisting(r) ==
    /\ reqs[r].kind = "prismaCreateBid" /\ reqs[r].pc = "checkExisting"
    /\ IF BidsOf(reqs[r].id, reqs[r].user) # {} THEN Respond(r, 400)
       ELSE Goto(r, "insertBid")
    /\ UNCHANGED <<projStatus, bids, pre>>

\* prisma.bid.create({ data: {...} }); a Prisma call that fails throws, and the
\* handler's catch block answers 500
PrismaCreateBidInsert(r, ok) ==
    /\ reqs[r].kind = "prismaCreateBid" /\ reqs[r].pc = "insertBid"
    /\ IF ok
       THEN /\ bids' = Append(bids, NewBid(reqs[r].id, reqs[r].user, reqs[r].amount))
            /\ reqs' = [reqs EXCEPT ![r].pc = "notify", ![r].created = Len(bids) + 1]
       ELSE /\ bids' = bids
            /\ Respond(r, 500)
    /\ UNCHANGED <<projStatus, pre>>

\* await prisma.notification.create({ data: { userId: project.managerId, type: 'bid_received' } })
\* inside the same try block: when it throws, the catch block answers 500
PrismaCreateBidNotify(r, ok) ==
    /\ reqs[r].kind = "prismaCreateBid" /\ reqs[r].pc = "notify"
    /\ IF ok
       THEN reqs' = [reqs EXCEPT ![r].pc = "emit", ![r].notified =
                       @ \cup {[user_id |-> reqs[r].manager_id, type |-> "bid_received"]}]
       ELSE Respond(r, 500)
    /\ UNCHANGED <<projStatus, bids, pre>>

\* io.to(`user_${project.managerId}`).emit(...); res.status(201).json(bid)
PrismaCreateBidEmit(r) ==
    /\ reqs[r].kind = "prismaCreateBid" /\ reqs[r].pc = "emit"
    /\ Respond(r, 201)
    /\ UNCHANGED <<projStatus, bids, pre>>

(* PUT /bids/:id and DELETE /bids/:id *)
\* ...select('vendor_id, status').eq('id', id).eq('vendor_id', userId).single()
OwnBidRead(req, next) ==
    IF ~Authorize(req.user, {"VENDOR"}) THEN Response(req, 403)
    ELSE IF ~(BidExists(req.id) /\ bids[req.id].vendor_id = req.user) THEN Response(req, 404)
    ELSE IF bids[req.id].status # "PENDING" THEN Response(req, 400)
    ELSE [req EXCEPT !.pc = next, !.bid = BidRow(req.id)]

UpdateBidRead(r, u, id, amount) ==
    /\ Free(r)
    /\ reqs' = [reqs EXCEPT ![r] =
                  OwnBidRead([NewReq("updateBid", u, id) EXCEPT !.amount = amount], "writeBid")]
    /\ UNCHANGED <<projStatus, bids>>

\* if (amount !== undefined) updateData.amount = parseFloat(amount)
\* (description, timeline and notes are copied into updateData the same way and
\* written by the same update; amount stands for the bid's content)
UpdateData(row, amount) ==
    [row EXCEPT !.amount = IF amount # Undefined THEN amount ELSE @]

\* ...from('bids').update(updateData).eq('id', id); if (error || !bid) return res.status(500)...
UpdateBidWrite(r, ok) ==
    /\ reqs[r].kind = "updateBid" /\ reqs[r].pc = "writeBid"
    /\ bids' = IF ok THEN [bids EXCEPT ![reqs[r].id] = UpdateData(@, reqs[r].amount)] ELSE bids
    /\ Respond(r, IF ok THEN 200 ELSE 500)
    /\ UNCHANGED <<projStatus, pre>>

WithdrawBidRead(r, u, id) ==
    /\ Free(r)
    /\ reqs' = [reqs EXCEPT ![r] = OwnBidRead(NewReq("withdrawBid", u, id), "writeStatus")]
    /\ UNCHANGED <<projStatus, bids>>

\* ...from('bids').update({ status: 'WITHDRAWN' }).eq('id', id); if (error) return res.status(500)...
WithdrawBidWrite(r, ok) ==
    /\ reqs[r].kind = "withdrawBid" /\ reqs[r].pc = "writeStatus"
    /\ bids' = IF ok THEN [bids EXCEPT ![reqs[r].id].status = "WITHDRAWN"] ELSE bids
    /\ Respond(r, IF ok THEN 200 ELSE 500)
    /\ UNCHANGED <<projStatus, pre>>

(* PATCH /bids/:id/status *)
ValidStatusAny(status) == status \in BidStatus

\* if (!['ACCEPTED', 'REJECTED'].includes(status)) return res.status(400)...
ValidStatus(status) == status \in {"ACCEPTED", "REJECTED"}

\* ...from('bids').select('*, project:projects(id, title, manager_id), ...').eq('id', id).single()
PatchStatusRead(r, u, id, status) ==
    /\ Free(r)
    /\ LET req == [NewReq("patchStatus", u, id) EXCEPT !.status = status] IN
       reqs' = [reqs EXCEPT ![r] =
                 IF ~Authorize(u, {"PROPERTY_MANAGER"}) THEN Response(req, 403)
                 ELSE IF ~ValidStatus(status) THEN Response(req, 400)
                 ELSE IF ~BidExists(id) THEN Response(req, 404)
                 ELSE IF ProjectManager[bids[id].project_id] # u THEN Response(req, 403)
                 ELSE [req EXCEPT !.pc = "updateStatus", !.bid = BidRow(id)]]
    /\ UNCHANGED <<projStatus, bids>>

\* ...from('bids').update({ status }).eq('id', id)
SetBidStatus(bs, id, status) == [bs EXCEPT ![id].status = status]

\* if (updateError || !updatedBid) return res.status(500)...
PatchStatusUpdate(r, ok) ==
    /\ reqs[r].kind = "patchStatus" /\ reqs[r].pc = "updateStatus"
    /\ IF ok
       THEN /\ bids' = SetBidStatus(bids, reqs[r].id, reqs[r].status)
            /\ Goto(r, IF reqs[r].status = "ACCEPTED" THEN "awardProject" ELSE "notify")
       ELSE /\ bids' = bids
            /\ Respond(r, 500)
    /\ UNCHANGED <<projStatus, pre>>

\* await ...from('projects').update({ status: 'AWARDED' }).eq('id', bid.project_id)
\* (the result of the update is not looked at)
PatchStatusAward(r, ok) ==
    /\ reqs[r].kind = "patchStatus" /\ reqs[r].pc = "awardProject"
    /\ projStatus' = IF ok THEN [projStatus EXCEPT ![reqs[r].bid.project_id] = "AWARDED"]
                     ELSE projStatus
    /\ Goto(r, "rejectOthers")
    /\ UNCHANGED <<bids, pre>>

RejectOthersAnyStatus(bs, p, id) ==
    [i \in 1..Len(bs) |->
        IF bs[i].project_id = p /\ i # id THEN [bs[i] EXCEPT !.status = "REJECTED"]
        ELSE bs[i]]

\* ...update({ status: 'REJECTED' }).eq('project_id', p).neq('id', id).eq('status', 'PENDING')
RejectOthers(bs, p, id) ==
    [i \in 1..Len(bs) |->
        IF bs[i].project_id = p /\ i # id /\ bs[i].status = "PENDING"
        THEN [bs[i] EXCEPT !.status = "REJECTED"]
        ELSE bs[i]]

\* (the result of the update is not looked at)
PatchStatusRejectOthers(r, ok) ==
    /\ reqs[r].kind = "patchStatus" /\ reqs[r].pc = "rejectOthers"
    /\ bids' = IF ok THEN RejectOthers(bids, reqs[r].bid.project_id, reqs[r].id) ELSE bids
    /\ Goto(r, "notify")
    /\ UNCHANGED <<projStatus, pre>>

\* ...from('notifications').insert({ user_id: bid.vendor_id, type: ..., ... })
NotificationType(status) == IF status = "ACCEPTED" THEN "bid_accepted" ELSE "bid_rejected"

\* (the result of the insert is not looked at)
PatchStatusNotify(r, ok) ==
    /\ reqs[r].kind = "patchStatus" /\ reqs[r].pc = "notify"
    /\ reqs' = [reqs EXCEPT ![r].pc = "emit", ![r].notified =
                  IF ok THEN @ \cup {[user_id |-> reqs[r].bid.vendor_id,
                                      type |-> NotificationType(reqs[r].status)]}
                  ELSE @]
    /\ UNCHANGED <<projStatus, bids, pre>>

\* io.to(`user_${bid.vendor_id}`).emit(...); res.json(updatedBid)
PatchStatusEmit(r) ==
    /\ reqs[r].kind = "patchStatus" /\ reqs[r].pc = "emit"
    /\ Respond(r, 200)
    /\ UNCHANGED <<projStatus, bids, pre>>

(* PUT /projects/:id *)
\* prisma.project.findFirst({ where: { id, managerId: userId } })
UpdateProjectRead(r, u, p, status) ==
    /\ Free(r)
    /\ LET req == [NewReq("updateProject", u, p) EXCEPT !.status = status] IN
       reqs' = [reqs EXCEPT ![r] =
                 IF ~Authorize(u, {"PROPERTY_MANAGER"}) THEN Response(req, 403)
                 ELSE IF ~(p \in Projects /\ ProjectManager[p] = u) THEN Response(req, 404)
                 ELSE [req EXCEPT !.pc = "writeProject"]]
    /\ UNCHANGED <<projStatus, bids>>

\* prisma.project.update({ where: { id }, data: { ...(status && { status }) } })
\* (a Prisma call that fails throws: the catch block answers 500)
UpdateProjectWrite(r, ok) ==
    /\ reqs[r].kind = "updateProject" /\ reqs[r].pc = "writeProject"
    /\ projStatus' = IF ok THEN [projStatus EXCEPT ![reqs[r].id] =
                                    IF reqs[r].status # "" THEN reqs[r].status ELSE @]
                     ELSE projStatus
    /\ Respond(r, IF ok THEN 200 ELSE 500)
    /\ UNCHANGED <<bids, pre>>

(* /properties (routes/property.routes.ts) and the rest of /projects *)
\* the answer to a request on a property or project: the status code and, on
\* success, the rows in the body; the requester and the id asked for are kept
\* with it
Answer(req, code, rows) ==
    [IdleReq EXCEPT !.kind = req.kind, !.user = req.user, !.id = req.id,
                    !.status = req.status, !.type = req.type, !.bidId = req.bidId,
                    !.res = code, !.rows = rows]

PropertyExists(id) == id \in PropertyIds /\ properties[id] # ""

\* ...from('properties').select(...).eq('id', id).eq('manager_id', userId).single()
OwnProperty(u, id) == PropertyExists(id) /\ properties[id] = u

\* router.get('/:id', authenticate, authorize('PROPERTY_MANAGER'), ...)
GetProperty(r, u, id) ==
    /\ Free(r)
    /\ LET req == NewReq("getProperty", u, id) IN
       reqs' = [reqs EXCEPT ![r] =
                 IF ~Authorize(u, {"PROPERTY_MANAGER"}) THEN Answer(req, 403, {})
                 ELSE IF ~OwnProperty(u, id) THEN Answer(req, 404, {})
                 ELSE Answer(req, 200, {id})]
    /\ UNCHANGED <<projStatus, bids, pre, properties, projRows>>

\* router.get('/', ...): ...from('properties').select(...).eq('manager_id', userId)
ListProperties(r, u) ==
    /\ Free(r)
    /\ LET req == NewReq("listProperties", u, 0) IN
       reqs' = [reqs EXCEPT ![r] =
                 IF ~Authorize(u, {"PROPERTY_MANAGER"}) THEN Answer(req, 403, {})
                 ELSE Answer(req, 200, {id \in PropertyIds : OwnProperty(u, id)})]
    /\ UNCHANGED <<projStatus, bids, pre, properties, projRows>>

\* a new row gets an id no row has
FreeProperty(id) == /\ id \in PropertyIds /\ ~PropertyExists(id)
                    /\ \A j \in PropertyIds : j < id => PropertyExists(j)

\* router.post('/', ...): ...from('properties').insert({ ..., manager_id: userId })
CreateProperty(r, u, ok) ==
    /\ Free(r)
    /\ \E id \in PropertyIds :
          /\ FreeProperty(id)
          /\ LET req == NewReq("createProperty", u, id) IN
             IF ~Authorize(u, {"PROPERTY_MANAGER"})
             THEN /\ reqs' = [reqs EXCEPT ![r] = Answer([req EXCEPT !.id = 0], 403, {})]
                  /\ properties' = properties
             ELSE IF ok
             THEN /\ reqs' = [reqs EXCEPT ![r] = Answer(req, 201, {id})]
                  /\ properties' = [properties EXCEPT ![id] = u]
             ELSE /\ reqs' = [reqs EXCEPT ![r] = Answer([req EXCEPT !.id = 0], 500, {})]
                  /\ properties' = properties
    /\ UNCHANGED <<projStatus, bids, pre, projRows>>

\* PUT /:id and DELETE /:id: authorize, then the existing row is read with
\* .eq('id', id).eq('manager_id', userId); no row: 404
OwnPropertyRead(req, next) ==
    IF ~Authorize(req.user, {"PROPERTY_MANAGER"}) THEN Answer(req, 403, {})
    ELSE IF ~OwnProperty(req.user, req.id) THEN Answer(req, 404, {})
    ELSE [req EXCEPT !.pc = next]

UpdatePropertyRead(r, u, id) ==
    /\ Free(r)
    /\ reqs' = [reqs EXCEPT ![r] = OwnPropertyRead(NewReq("updateProperty", u, id), "writeProperty")]
    /\ UNCHANGED <<projStatus, bids, pre, properties, projRows>>

\* ...from('properties').update(updateData).eq('id', id): name, address, city,
\* state and zip_code only, manager_id is not among the columns written;
\* if (error || !property) return res.status(500)...
UpdatePropertyWrite(r, ok) ==
    /\ reqs[r].kind = "updateProperty" /\ reqs[r].pc = "writeProperty"
    /\ reqs' = [reqs EXCEPT ![r] =
                  IF ok /\ PropertyExists(reqs[r].id) THEN Answer(reqs[r], 200, {reqs[r].id})
                  ELSE Answer(reqs[r], 500, {})]
    /\ UNCHANGED <<projStatus, bids, pre, properties, projRows>>

DeletePropertyRead(r, u, id) ==
    /\ Free(r)
    /\ reqs' = [reqs EXCEPT ![r] = OwnPropertyRead(NewReq("deleteProperty", u, id), "deleteProperty")]
    /\ UNCHANGED <<projStatus, bids, pre, properties, projRows>>

\* a project belongs to exactly one property: the rows of a property's
\* projects go with the property
CascadeProjects(rows, id) ==
    [p \in Projects |-> IF rows[p].property_id = id THEN NoProject ELSE rows[p]]

\* ...from('properties').delete().eq('id', id); if (error) return res.status(500)...
DeletePropertyWrite(r, ok) ==
    /\ reqs[r].kind = "deleteProperty" /\ reqs[r].pc = "deleteProperty"
    /\ IF ok
       THEN /\ properties' = [properties EXCEPT ![reqs[r].id] = ""]
            /\ projRows' = CascadeProjects(projRows, reqs[r].id)
            /\ projStatus' = [p \in Projects |->
                                 IF projRows[p].property_id = reqs[r].id THEN ""
                                 ELSE projStatus[p]]
            /\ reqs' = [reqs EXCEPT ![r] = Answer(reqs[r], 200, {})]
       ELSE /\ UNCHANGED <<properties, projRows, projStatus>>
            /\ reqs' = [reqs EXCEPT ![r] = Answer(reqs[r], 500, {})]
    /\ UNCHANGED <<bids, pre>>

\* router.get('/:id') of projects: findUnique, 404,
\* if (role === 'PROPERTY_MANAGER' && project.managerId !== userId) 403
GetProject(r, u, id) ==
    /\ Free(r)
    /\ LET req == NewReq("getProject", u, id) IN
       reqs' = [reqs EXCEPT ![r] =
                 IF ~ProjectExists(id) THEN Answer(req, 404, {})
                 ELSE IF UserRole[u] = "PROPERTY_MANAGER" /\ ProjectManager[id] # u
                      THEN Answer(req, 403, {})
                 ELSE Answer(req, 200, {id})]
    /\ UNCHANGED <<projStatus, bids, pre, properties, projRows>>

\* the where clause of GET /projects, as the handler builds it
\*   if (role === 'PROPERTY_MANAGER') where.managerId = userId
\*   else if (role === 'VENDOR') where.status = 'OPEN'
\*   if (status) where.status = status      (replaces the vendor's 'OPEN')
\*   if (type) where.type = type
ProjectWhere(u, status, type, p) ==
    /\ ProjectExists(p)
    /\ UserRole[u] = "PROPERTY_MANAGER" => ProjectManager[p] = u
    /\ projStatus[p] = (IF status # "" THEN status
                        ELSE IF UserRole[u] = "VENDOR" THEN "OPEN"
                        ELSE projStatus[p])
    /\ type # "" => ProjectTypeOf(p) = type

\* router.get('/') of projects: prisma.project.findMany({ where, ... })
ListProjects(r, u, status, type) ==
    /\ Free(r)
    /\ LET req == [NewReq("listProjects", u, 0) EXCEPT !.status = status, !.type = type] IN
       reqs' = [reqs EXCEPT ![r] =
                 Answer(req, 200, {p \in Projects : ProjectWhere(u, status, type, p)})]
    /\ UNCHANGED <<projStatus, bids, pre, properties, projRows>>

CreateProjectReadAnyProperty(r, u, prop) ==
    /\ Free(r)
    /\ LET req == NewReq("createProject", u, prop) IN
       reqs' = [reqs EXCEPT ![r] =
                 IF ~Authorize(u, {"PROPERTY_MANAGER"}) THEN Answer(req, 403, {})
                 ELSE IF ~PropertyExists(prop) THEN Answer(req, 403, {})
                 ELSE [req EXCEPT !.pc = "insertProject"]]
    /\ UNCHANGED <<projStatus, bids, pre, properties, projRows>>

\* router.post('/') of projects: authorize('PROPERTY_MANAGER'),
\* prisma.property.findFirst({ where: { id: propertyId, managerId: userId } }), 403
CreateProjectRead(r, u, prop) ==
    /\ Free(r)
    /\ LET req == NewReq("createProject", u, prop) IN
       reqs' = [reqs EXCEPT ![r] =
                 IF ~Authorize(u, {"PROPERTY_MANAGER"}) THEN Answer(req, 403, {})
                 ELSE IF ~OwnProperty(u, prop) THEN Answer(req, 403, {})
                 ELSE [req EXCEPT !.pc = "insertProject"]]
    /\ UNCHANGED <<projStatus, bids, pre, properties, projRows>>

FreeProject(p) == /\ p \in Projects /\ ~ProjectExists(p)
                  /\ \A q \in Projects : q < p => ProjectExists(q)

\* prisma.project.create({ data: { ..., propertyId, managerId: userId } }); the
\* create throws when it fails (also when the property row is gone: propertyId
\* is a relation), and the catch block answers 500
CreateProjectWrite(r, ok) ==
    /\ reqs[r].kind = "createProject" /\ reqs[r].pc = "insertProject"
    /\ \E p \in Projects :
          /\ FreeProject(p)
          /\ IF ok /\ PropertyExists(reqs[r].id)
             THEN /\ projRows' = [projRows EXCEPT ![p] =
                                    [property_id |-> reqs[r].id, manager_id |-> reqs[r].user]]
                  /\ projStatus' = [projStatus EXCEPT ![p] = DefaultProjectStatus]
                  /\ reqs' = [reqs EXCEPT ![r] = Answer(reqs[r], 201, {p})]
             ELSE /\ UNCHANGED <<projRows, projStatus>>
                  /\ reqs' = [reqs EXCEPT ![r] = Answer(reqs[r], 500, {})]
    /\ UNCHANGED <<bids, pre, properties>>

\* router.delete('/:id') of projects: authorize('PROPERTY_MANAGER'),
\* prisma.project.findFirst({ where: { id, managerId: userId } }), 404
DeleteProjectRead(r, u, id) ==
    /\ Free(r)
    /\ LET req == NewReq("deleteProject", u, id) IN
       reqs' = [reqs EXCEPT ![r] =
                 IF ~Authorize(u, {"PROPERTY_MANAGER"}) THEN Answer(req, 403, {})
                 ELSE IF ~(ProjectExists(id) /\ ProjectManager[id] = u) THEN Answer(req, 404, {})
                 ELSE [req EXCEPT !.pc = "deleteProject"]]
    /\ UNCHANGED <<projStatus, bids, pre, properties, projRows>>

\* prisma.project.delete({ where: { id } })
DeleteProjectWrite(r, ok) ==
    /\ reqs[r].kind = "deleteProject" /\ reqs[r].pc = "deleteProject"
    /\ IF ok /\ ProjectExists(reqs[r].id)
       THEN /\ projRows' = [projRows EXCEPT ![reqs[r].id] = NoProject]
            /\ projStatus' = [projStatus EXCEPT ![reqs[r].id] = ""]
            /\ reqs' = [reqs EXCEPT ![r] = Answer(reqs[r], 200, {})]
       ELSE /\ UNCHANGED <<projRows, projStatus>>
            /\ reqs' = [reqs EXCEPT ![r] = Answer(reqs[r], 500, {})]
    /\ UNCHANGED <<bids, pre, properties>>

(* /messages (routes/message.routes.ts) *)
MsgUsers == {"m1", "v1", "a1"}
\* a well-formed id that is no user's
Nobody == "nobody"

MessageIds == 1..MaxMessages
\* body('content').trim().notEmpty()
Contents == {"hello", "bye"}
MessageExists(id) == id \in 1..Len(messages)

\* a condition col.eq.val or col.not.is.null of a PostgREST filter
Eq(col, val) == [col |-> col, op |-> "eq", val |-> val]
NotNull(col) == [col |-> col, op |-> "not.is", val |-> "null"]

Column(i, col) == IF col = "sender_id" THEN messages[i].sender_id ELSE messages[i].receiver_id

Holds(cond, i) == IF cond.op = "eq" THEN Column(i, cond.col) = cond.val
                  ELSE Column(i, cond.col) # cond.val

\* the text  v1),sender_id.not.is.null,and(sender_id.eq.v1
CraftedParam == [first |-> "v1", closes |-> TRUE, more |-> {{NotNull("sender_id")}},
                 open |-> {Eq("sender_id", "v1")}]

PathParams == {PlainParam(u) : u \in MsgUsers} \cup {CraftedParam}

\* .or(`and(sender_id.eq.${currentUserId},receiver_id.eq.${userId}),
\*      and(sender_id.eq.${userId},receiver_id.eq.${currentUserId})`)
\* the alternatives PostgREST reads in the string after the parameter is pasted
\* in twice (each alternative is a set of conditions that must all hold)
OrFilterWith(cur, P) ==
    IF ~P.closes
    THEN {{Eq("sender_id", cur), Eq("receiver_id", P.first)},
          {Eq("sender_id", P.first), Eq("receiver_id", cur)}}
    ELSE {{Eq("sender_id", cur), Eq("receiver_id", P.first)}} \cup P.more \cup {P.open}
         \cup {{Eq("sender_id", P.first)}} \cup P.more
         \cup {P.open \cup {Eq("receiver_id", cur)}}

Matching(filter) == {i \in 1..Len(messages) : \E alt \in filter : \A cond \in alt : Holds(cond, i)}

\* .eq('sender_id', userId): the column equals the whole text
ParamIs(P, val) == ~P.closes /\ P.first = val

\* message rows that requests in flight will still insert
PendingMessages == Cardinality({r \in Reqs : reqs[r].kind = "sendMessage" /\ InFlight(r)
                                              /\ reqs[r].created = 0})

\* router.post('/'): body('receiverId').isUUID(), then
\* ...from('users').select(...).eq('id', receiverId).single(); if (!receiver) 404
SendMessageReadReceiver(r, u, receiver, content) ==
    /\ Free(r)
    /\ Len(messages) + PendingMessages < MaxMessages
    /\ LET req == [NewReq("sendMessage", u, 0) EXCEPT !.receiver = receiver,
                                                     !.content = content] IN
       reqs' = [reqs EXCEPT ![r] =
                 IF receiver \notin Users THEN Answer(req, 404, {})
                 ELSE [req EXCEPT !.pc = "insertMessage"]]
    /\ UNCHANGED <<projStatus, bids, pre, properties, projRows, messages>>

\* ...from('messages').insert({ sender_id, receiver_id, content }).select(...).single();
\* if (messageError || !message) return res.status(500)...
SendMessageInsert(r, ok) ==
    /\ reqs[r].kind = "sendMessage" /\ reqs[r].pc = "insertMessage"
    /\ IF ok
       THEN /\ messages' = Append(messages, [sender_id |-> reqs[r].user,
                                              receiver_id |-> reqs[r].receiver,
                                              content |-> reqs[r].content,
                                              read |-> FALSE])
            /\ reqs' = [reqs EXCEPT ![r].pc = "readSender", ![r].created = Len(messages) + 1]
       ELSE /\ messages' = messages
            /\ reqs' = [reqs EXCEPT ![r] = Answer(reqs[r], 500, {})]
    /\ UNCHANGED <<projStatus, bids, pre, properties, projRows>>

\* ...from('users').select('first_name, last_name').eq('id', senderId).single()
SendMessageReadSender(r) ==
    /\ reqs[r].kind = "sendMessage" /\ reqs[r].pc = "readSender"
    /\ Goto(r, "notifyMessage")
    /\ UNCHANGED <<projStatus, bids, pre, properties, projRows, messages>>

\* await ...from('notifications').insert({ user_id: receiverId, type: 'message', ... })
\* (the result is not looked at)
SendMessageNotify(r, ok) ==
    /\ reqs[r].kind = "sendMessage" /\ reqs[r].pc = "notifyMessage"
    /\ reqs' = [reqs EXCEPT ![r].pc = "emitMessage", ![r].notified =
                  IF ok THEN {[user_id |-> reqs[r].receiver, type |-> "message"]} ELSE {}]
    /\ UNCHANGED <<projStatus, bids, pre, properties, projRows, messages>>

\* io.to(`user_${receiverId}`).emit('message', message); ...emit('notification', ...);
\* res.status(201).json(message)
SendMessageEmit(r) ==
    /\ reqs[r].kind = "sendMessage" /\ reqs[r].pc = "emitMessage"
    /\ reqs' = [reqs EXCEPT ![r] =
                  [Answer(reqs[r], 201, {reqs[r].created}) EXCEPT !.notified = reqs[r].notified]]
    /\ UNCHANGED <<projStatus, bids, pre, properties, projRows, messages>>

\* the other party of message i, seen from u
Partner(u, i) == IF messages[i].sender_id = u THEN messages[i].receiver_id
                 ELSE messages[i].sender_id

\* .order('created_at', { ascending: false }): the ids in set S, newest first
\* (rows are kept in the order of their creation)
RECURSIVE NewestFirst(_)
NewestFirst(S) ==
    IF S = {} THEN <<>>
    ELSE LET n == CHOOSE i \in S : \A j \in S : j <= i
         IN <<n>> \o NewestFirst(S \ {n})

UnreadAnyReceiver(u, i) == ~messages[i].read

\* if (message.receiver_id === userId && !message.read) conv.unreadCount++
Unread(u, i) == messages[i].receiver_id = u /\ ~messages[i].read

\* messages?.forEach(...): convs is the Map so far, in insertion order; a
\* partner not yet in the Map gets an entry whose lastMessage is this message,
\* and an unread message to u adds one to the partner's unreadCount
RECURSIVE GroupByPartner(_, _, _)
GroupByPartner(u, list, convs) ==
    IF list = <<>> THEN convs
    ELSE LET i == Head(list)
             partnerId == Partner(u, i)
             has == \E k \in 1..Len(convs) : convs[k].partnerId = partnerId
             added == IF has THEN convs
                      ELSE Append(convs, [partnerId |-> partnerId, lastMessage |-> i,
                                          unreadCount |-> 0])
             counted == [k \in 1..Len(added) |->
                           IF added[k].partnerId = partnerId /\ Unread(u, i)
                           THEN [added[k] EXCEPT !.unreadCount = @ + 1]
                           ELSE added[k]]
         IN GroupByPartner(u, Tail(list), counted)

\* Array.from(conversations.values()) for user u
Conversations(u) ==
    GroupByPartner(u, NewestFirst(Matching({{Eq("sender_id", u)}, {Eq("receiver_id", u)}})), <<>>)

\* router.get('/conversations'): .or(`sender_id.eq.${userId},receiver_id.eq.${userId}`),
\* newest first; the answer holds one entry per partner (rows: the ids of the
\* entries' lastMessage)
GetConversations(r, u) ==
    /\ Free(r)
    /\ LET convs == Conversations(u)
       IN reqs' = [reqs EXCEPT ![r] =
                    Answer(NewReq("getConversations", u, 0), 200,
                           {convs[k].lastMessage : k \in 1..Len(convs)})]
    /\ UNCHANGED <<projStatus, bids, pre, properties, projRows, messages>>

\* router.get('/with/:userId'): the select with the .or(...) filter
GetWithRead(r, u, P) ==
    /\ Free(r)
    /\ reqs' = [reqs EXCEPT ![r] =
                  [NewReq("getWith", u, 0) EXCEPT !.pc = "markRead", !.param = P,
                                                  !.rows = Matching(OrFilterWith(u, P))]]
    /\ UNCHANGED <<projStatus, bids, pre, properties, projRows, messages>>

GetWithMarkReadAnyReceiver(r, ok) ==
    /\ reqs[r].kind = "getWith" /\ reqs[r].pc = "markRead"
    /\ messages' = [i \in 1..Len(messages) |->
                      IF /\ ok /\ ParamIs(reqs[r].param, messages[i].sender_id)
                         /\ ~messages[i].read
                      THEN [messages[i] EXCEPT !.read = TRUE]
                      ELSE messages[i]]
    /\ reqs' = [reqs EXCEPT ![r] = Answer(reqs[r], 200, reqs[r].rows)]
    /\ UNCHANGED <<projStatus, bids, pre, properties, projRows>>

\* await ...from('messages').update({ read: true }).eq('sender_id', userId)
\*   .eq('receiver_id', currentUserId).eq('read', false)  (the result is not
\* looked at); res.json(messages)
GetWithMarkRead(r, ok) ==
    /\ reqs[r].kind = "getWith" /\ reqs[r].pc = "markRead"
    /\ messages' = [i \in 1..Len(messages) |->
                      IF /\ ok /\ ParamIs(reqs[r].param, messages[i].sender_id)
                         /\ messages[i].receiver_id = reqs[r].user
                         /\ ~messages[i].read
                      THEN [messages[i] EXCEPT !.read = TRUE]
                      ELSE messages[i]]
    /\ reqs' = [reqs EXCEPT ![r] = Answer(reqs[r], 200, reqs[r].rows)]
    /\ UNCHANGED <<projStatus, bids, pre, properties, projRows>>

\* router.patch('/:id/read'): ...select('receiver_id').eq('id', id).single();
\* if (!message) 404; if (message.receiver_id !== userId) 403
MarkReadRead(r, u, id) ==
    /\ Free(r)
    /\ LET req == NewReq("markRead", u, id) IN
       reqs' = [reqs EXCEPT ![r] =
                 IF ~MessageExists(id) THEN Answer(req, 404, {})
                 ELSE IF messages[id].receiver_id # u THEN Answer(req, 403, {})
                 ELSE [req EXCEPT !.pc = "updateRead"]]
    /\ UNCHANGED <<projStatus, bids, pre, properties, projRows, messages>>

MarkReadUpdateToggle(r, ok) ==
    /\ reqs[r].kind = "markRead" /\ reqs[r].pc = "updateRead"
    /\ IF ok /\ MessageExists(reqs[r].id)
       THEN /\ messages' = [messages EXCEPT ![reqs[r].id].read = ~@]
            /\ reqs' = [reqs EXCEPT ![r] = Answer(reqs[r], 200, {reqs[r].id})]
       ELSE /\ messages' = messages
            /\ reqs' = [reqs EXCEPT ![r] = Answer(reqs[r], 500, {})]
    /\ UNCHANGED <<projStatus, bids, pre, properties, projRows>>

\* ...from('messages').update({ read: true }).eq('id', id).select().single();
\* if (error || !updatedMessage) return res.status(500)...
MarkReadUpdate(r, ok) ==
    /\ reqs[r].kind = "markRead" /\ reqs[r].pc = "updateRead"
    /\ IF ok /\ MessageExists(reqs[r].id)
       THEN /\ messages' = [messages EXCEPT ![reqs[r].id].read = TRUE]
            /\ reqs' = [reqs EXCEPT ![r] = Answer(reqs[r], 200, {reqs[r].id})]
       ELSE /\ messages' = messages
            /\ reqs' = [reqs EXCEPT ![r] = Answer(reqs[r], 500, {})]
    /\ UNCHANGED <<projStatus, bids, pre, properties, projRows>>

(* /documents (routes/document.routes.ts) *)
DocIds == 1..MaxDocs
\* storage paths (`${userId}/projects/${projectId}/${randomUUID()}.${fileExt}`)
PathIds == 1..MaxDocs
\* a row that was deleted (ids are not used again)
NoDoc == [uploaded_by |-> "", project_id |-> 0, bid_id |-> 0, storage_path |-> 0]
DocExists(id) == id \in 1..Len(documents) /\ documents[id] # NoDoc

\* outcomes of the insert of the document row: carried out, an error
\* returned by the client, an exception
InsertOutcomes == {"done", "error", "throws"}

\* randomUUID(): a path no payload and no row has
FreePath(path) == /\ path \in PathIds /\ path \notin storage
                  /\ \A i \in 1..Len(documents) : documents[i].storage_path # path
                  /\ \A q \in PathIds :
                        q < path => \/ q \in storage
                                    \/ \E i \in 1..Len(documents) : documents[i].storage_path = q

\* if (!project || project.manager_id !== userId) 403
UploadProjectDenied(u, projectId) == ~(ProjectExists(projectId) /\ ProjectManager[projectId] = u)

UploadBidDeniedNever(u, bidId) == FALSE

\* if (!bid || bid.vendor_id !== userId) 403
UploadBidDenied(u, bidId) == ~(BidExists(bidId) /\ bids[bidId].vendor_id = u)

\* router.post('/upload'): if (!req.file) 400; if (!projectId && !bidId) 400;
\* then the first store read: the project when projectId is given, else the bid
UploadBegin(r, u, hasFile, projectId, bidId) ==
    /\ Free(r)
    /\ Len(documents) < MaxDocs
    /\ LET req == [NewReq("upload", u, projectId) EXCEPT !.bidId = bidId] IN
       reqs' = [reqs EXCEPT ![r] =
                 IF ~hasFile THEN Answer(req, 400, {})
                 ELSE IF projectId = 0 /\ bidId = 0 THEN Answer(req, 400, {})
                 ELSE IF projectId # 0
                      THEN IF UploadProjectDenied(u, projectId) THEN Answer(req, 403, {})
                           ELSE IF bidId # 0 THEN [req EXCEPT !.pc = "checkBid"]
                           ELSE [req EXCEPT !.pc = "storeFile"]
                 ELSE IF UploadBidDenied(u, bidId) THEN Answer(req, 403, {})
                 ELSE [req EXCEPT !.pc = "storeFile"]]
    /\ UNCHANGED <<projStatus, bids, pre, properties, projRows, messages, documents, storage>>

\* if (bidId) { ...from('bids').select('vendor_id').eq('id', bidId).single(); 403 }
\* after the project check passed
UploadCheckBid(r) ==
    /\ reqs[r].kind = "upload" /\ reqs[r].pc = "checkBid"
    /\ reqs' = [reqs EXCEPT ![r] =
                  IF UploadBidDenied(reqs[r].user, reqs[r].bidId) THEN Answer(reqs[r], 403, {})
                  ELSE [reqs[r] EXCEPT !.pc = "storeFile"]]
    /\ UNCHANGED <<projStatus, bids, pre, properties, projRows, messages, documents, storage>>

\* ...storage.from('documents').upload(storagePath, ...); if (uploadError) 500
UploadStore(r, ok) ==
    /\ reqs[r].kind = "upload" /\ reqs[r].pc = "storeFile"
    /\ \E path \in PathIds :
          /\ FreePath(path)
          /\ IF ok
             THEN /\ storage' = storage \cup {path}
                  /\ reqs' = [reqs EXCEPT ![r].pc = "insertDocument", ![r].created = path]
             ELSE /\ storage' = storage
                  /\ reqs' = [reqs EXCEPT ![r] = Answer(reqs[r], 500, {})]
    /\ UNCHANGED <<projStatus, bids, pre, properties, projRows, messages, documents>>

\* if (projectId) documentData.project_id = projectId;
\* if (bidId) documentData.bid_id = bidId;
\* ...from('documents').insert(documentData).select().single();
\* if (dbError || !document) { await ...remove([storagePath]); return 500 }
\* an exception goes to the catch block, which answers 500
UploadInsert(r, out) ==
    /\ reqs[r].kind = "upload" /\ reqs[r].pc = "insertDocument"
    /\ IF out = "done"
       THEN /\ documents' = Append(documents, [uploaded_by |-> reqs[r].user,
                                                project_id |-> reqs[r].id,
                                                bid_id |-> reqs[r].bidId,
                                                storage_path |-> reqs[r].created])
            /\ reqs' = [reqs EXCEPT ![r] = Answer(reqs[r], 201, {Len(documents) + 1})]
       ELSE /\ documents' = documents
            /\ reqs' = [reqs EXCEPT ![r] =
                          IF out = "error" THEN [reqs[r] EXCEPT !.pc = "cleanup"]
                          ELSE Answer(reqs[r], 500, {})]
    /\ UNCHANGED <<projStatus, bids, pre, properties, projRows, messages, storage>>

\* await supabaseAdmin.storage.from('documents').remove([storagePath]) (the
\* result is not looked at); return res.status(500)...
UploadCleanup(r, ok) ==
    /\ reqs[r].kind = "upload" /\ reqs[r].pc = "cleanup"
    /\ storage' = IF ok THEN storage \ {reqs[r].created} ELSE storage
    /\ reqs' = [reqs EXCEPT ![r] = Answer(reqs[r], 500, {})]
    /\ UNCHANGED <<projStatus, bids, pre, properties, projRows, messages, documents>>

HasAccessAnyManager(u, doc) ==
    \/ UserRole[u] \in {"ADMIN", "PROPERTY_MANAGER"}
    \/ doc.uploaded_by = u
    \/ doc.bid_id # 0 /\ BidExists(doc.bid_id) /\ bids[doc.bid_id].vendor_id = u

\* hasAccess: role === 'ADMIN', document.uploaded_by === userId,
\* document.project && document.project.manager_id === userId,
\* document.bid && document.bid.vendor_id === userId
HasAccess(u, doc) ==
    \/ UserRole[u] = "ADMIN"
    \/ doc.uploaded_by = u
    \/ doc.project_id # 0 /\ ProjectExists(doc.project_id) /\ ProjectManager[doc.project_id] = u
    \/ doc.bid_id # 0 /\ BidExists(doc.bid_id) /\ bids[doc.bid_id].vendor_id = u

\* router.get('/:id') of documents: the row with its project and bid, 404,
\* the access check, 403
GetDocumentRead(r, u, id) ==
    /\ Free(r)
    /\ LET req == NewReq("getDocument", u, id) IN
       reqs' = [reqs EXCEPT ![r] =
                 IF ~DocExists(id) THEN Answer(req, 404, {})
                 ELSE IF ~HasAccess(u, documents[id]) THEN Answer(req, 403, {})
                 ELSE [req EXCEPT !.pc = "signUrl", !.created = documents[id].storage_path]]
    /\ UNCHANGED <<projStatus, bids, pre, properties, projRows, messages, documents, storage>>

\* ...storage.from('documents').createSignedUrl(document.storage_path, 3600);
\* if (urlError || !signedUrl) 500; res.json({ ...document, downloadUrl })
\* (rows: the paths a link was issued for)
GetDocumentSign(r, ok) ==
    /\ reqs[r].kind = "getDocument" /\ reqs[r].pc = "signUrl"
    /\ reqs' = [reqs EXCEPT ![r] =
                  IF ok /\ reqs[r].created \in storage
                  THEN Answer(reqs[r], 200, {reqs[r].created})
                  ELSE Answer(reqs[r], 500, {})]
    /\ UNCHANGED <<projStatus, bids, pre, properties, projRows, messages, documents, storage>>

\* router.delete('/:id') of documents: the row, 404,
\* if (document.uploaded_by !== userId && role !== 'ADMIN') 403
DeleteDocumentRead(r, u, id) ==
    /\ Free(r)
    /\ LET req == NewReq("deleteDocument", u, id) IN
       reqs' = [reqs EXCEPT ![r] =
                 IF ~DocExists(id) THEN Answer(req, 404, {})
                 ELSE IF documents[id].uploaded_by # u /\ UserRole[u] # "ADMIN"
                      THEN Answer(req, 403, {})
                 ELSE [req EXCEPT !.pc = "removeFile", !.created = documents[id].storage_path]]
    /\ UNCHANGED <<projStatus, bids, pre, properties, projRows, messages, documents, storage>>

\* ...storage.from('documents').remove([document.storage_path]);
\* if (storageError) { /* Continue anyway to remove DB record */ }
DeleteDocumentRemove(r, ok) ==
    /\ reqs[r].kind = "deleteDocument" /\ reqs[r].pc = "removeFile"
    /\ storage' = IF ok THEN storage \ {reqs[r].created} ELSE storage
    /\ Goto(r, "deleteRow")
    /\ UNCHANGED <<projStatus, bids, pre, properties, projRows, messages, documents>>

\* ...from('documents').delete().eq('id', id); if (dbError) 500
DeleteDocumentDelete(r, ok) ==
    /\ reqs[r].kind = "deleteDocument" /\ reqs[r].pc = "deleteRow"
    /\ IF ok
       THEN /\ documents' = [documents EXCEPT ![reqs[r].id] = NoDoc]
            /\ reqs' = [reqs EXCEPT ![r] = Answer(reqs[r], 200, {})]
       ELSE /\ documents' = documents
            /\ reqs' = [reqs EXCEPT ![r] = Answer(reqs[r], 500, {})]
    /\ UNCHANGED <<projStatus, bids, pre, properties, projRows, messages, storage>>

(* GET /bids *)
\* the projectId (0 = not given) and status ("" = not given) query parameters
ProjectIdFilters == {0} \cup Projects
BidStatusFilters == {"", "PENDING"}

\* ...from('projects').select('id').eq('manager_id', userId)
\* prisma.project.findMany({ where: { managerId: userId }, select: { id: true } })
ProjectIdsOf(u) == {p \in Projects : ProjectExists(p) /\ ProjectManager[p] = u}

\* the Supabase query: every condition is added to the ones before it
\*   if (role === 'VENDOR') query = query.eq('vendor_id', userId)
\*   else if (role === 'PROPERTY_MANAGER') query = query.in('project_id', projectIds)
\*   if (projectId) query = query.eq('project_id', projectId)
\*   if (status) query = query.eq('status', status)
BidQuery(u, ids, projectId, status) ==
    {i \in 1..Len(bids) :
        /\ UserRole[u] = "VENDOR" => bids[i].vendor_id = u
        /\ UserRole[u] = "PROPERTY_MANAGER" => bids[i].project_id \in ids
        /\ projectId # 0 => bids[i].project_id = projectId
        /\ status # "" => bids[i].status = status}

\* router.get('/') of bids (Supabase): a vendor's or an admin's request runs
\* the query at once; a manager's first reads the ids of their projects and
\* answers [] when there are none
ListBidsBegin(r, u, projectId, status) ==
    /\ Free(r)
    /\ LET req == [NewReq("listBids", u, projectId) EXCEPT !.status = status] IN
       reqs' = [reqs EXCEPT ![r] =
                 IF UserRole[u] # "PROPERTY_MANAGER"
                 THEN Answer(req, 200, BidQuery(u, {}, projectId, status))
                 ELSE IF ProjectIdsOf(u) = {} THEN Answer(req, 200, {})
                 ELSE [req EXCEPT !.pc = "queryBids", !.rows = ProjectIdsOf(u)]]
    /\ UNCHANGED <<projStatus, bids, pre, properties, projRows>>

\* const { data: bids, error } = await query.order(...); if (error) 500
ListBidsQuery(r, ok) ==
    /\ reqs[r].kind = "listBids" /\ reqs[r].pc = "queryBids"
    /\ reqs' = [reqs EXCEPT ![r] =
                  IF ok THEN Answer(reqs[r], 200,
                                    BidQuery(reqs[r].user, reqs[r].rows, reqs[r].id, reqs[r].status))
                  ELSE Answer(reqs[r], 500, {})]
    /\ UNCHANGED <<projStatus, bids, pre, properties, projRows>>

\* the Prisma where object: one value per key, a later assignment replaces
\* the earlier one
\*   if (role === 'VENDOR') where.vendorId = userId
\*   else if (role === 'PROPERTY_MANAGER') where.projectId = { in: ids }
\*   if (projectId) where.projectId = projectId
\*   if (status) where.status = status
PrismaBidWhere(u, ids, projectId, status) ==
    {i \in 1..Len(bids) :
        /\ UserRole[u] = "VENDOR" => bids[i].vendor_id = u
        /\ IF projectId # 0 THEN bids[i].project_id = projectId
           ELSE UserRole[u] = "PROPERTY_MANAGER" => bids[i].project_id \in ids
        /\ status # "" => bids[i].status = status}

\* router.get('/') of bids (Prisma)
PrismaListBidsBegin(r, u, projectId, status) ==
    /\ Free(r)
    /\ LET req == [NewReq("prismaListBids", u, projectId) EXCEPT !.status = status] IN
       reqs' = [reqs EXCEPT ![r] =
                 IF UserRole[u] # "PROPERTY_MANAGER"
                 THEN Answer(req, 200, PrismaBidWhere(u, {}, projectId, status))
                 ELSE [req EXCEPT !.pc = "findBids", !.rows = ProjectIdsOf(u)]]
    /\ UNCHANGED <<projStatus, bids, pre, properties, projRows>>

\* prisma.bid.findMany({ where, ... }); a failure throws and the catch answers 500
PrismaListBidsFind(r, ok) ==
    /\ reqs[r].kind = "prismaListBids" /\ reqs[r].pc = "findBids"
    /\ reqs' = [reqs EXCEPT ![r] =
                  IF ok THEN Answer(reqs[r], 200,
                                    PrismaBidWhere(reqs[r].user, reqs[r].rows, reqs[r].id, reqs[r].status))
                  ELSE Answer(reqs[r], 500, {})]
    /\ UNCHANGED <<projStatus, bids, pre, properties, projRows>>

(* ---------------------------- notifications ---------------------------- *)
\* the notifications table: user_id and read of each row; a deleted row
\* leaves its id behind, ids are never given out twice
MaxNotifications == 2
NotificationIds == 1..MaxNotifications
NoNotification == [user_id |-> "", read |-> FALSE]

\* .from('notifications').select('user_id').eq('id', id).single()
NotificationExists(id) == id \in 1..Len(notifications) /\ notifications[id] # NoNotification

\* the tables no notification route writes
notNotifications == <<projStatus, bids, pre, properties, projRows, messages, documents, storage>>

\* ...from('notifications').insert({ user_id: receiverId, type: 'message', ... }):
\* the row a notifying handler inserts, as the notification routes find it
InsertNotification(u) ==
    /\ Len(notifications) < MaxNotifications
    /\ notifications' = Append(notifications, [user_id |-> u, read |-> FALSE])
    /\ UNCHANGED <<reqs, notNotifications>>

\* .eq('user_id', userId) and, with unreadOnly=true, .eq('read', false);
\* .limit(50) is above the number of rows here
NotificationsOf(u, unreadOnly) ==
    {i \in 1..Len(notifications) : /\ NotificationExists(i)
                                   /\ notifications[i].user_id = u
                                   /\ (unreadOnly => ~notifications[i].read)}

\* router.get('/'): one query, 500 when it fails
ListNotifications(r, u, unreadOnly, ok) ==
    /\ Free(r)
    /\ LET req == NewReq("listNotifications", u, 0) IN
       reqs' = [reqs EXCEPT ![r] = IF ok THEN Answer(req, 200, NotificationsOf(u, unreadOnly))
                                         ELSE Answer(req, 500, {})]
    /\ UNCHANGED <<notifications, notNotifications>>

\* router.get('/unread-count'): the rows counted are kept, count is their number
UnreadCount(r, u, ok) ==
    /\ Free(r)
    /\ LET req == NewReq("unreadCount", u, 0) IN
       reqs' = [reqs EXCEPT ![r] = IF ok THEN Answer(req, 200, NotificationsOf(u, TRUE))
                                         ELSE Answer(req, 500, {})]
    /\ UNCHANGED <<notifications, notNotifications>>

\* the ownership test of PATCH /:id/read and DELETE /:id after the row was
\* read: found is what the read gave, failed the answer to a read that threw
OwnNotificationAnyone(req, found, threw, failed, label) ==
    IF threw THEN Answer(req, failed, {})
    ELSE IF ~found THEN Answer(req, 404, {})
    ELSE [req EXCEPT !.pc = label]

\* if (!notification) return 404; if (notification.user_id !== userId) return 403
OwnNotification(req, found, threw, failed, label) ==
    IF threw THEN Answer(req, failed, {})
    ELSE IF ~found THEN Answer(req, 404, {})
    ELSE IF notifications[req.id].user_id # req.user THEN Answer(req, 403, {})
    ELSE [req EXCEPT !.pc = label]

\* router.patch('/:id/read'): the read's error is not looked at, a failed read
\* gives no row and the answer is 404
MarkNotificationRead(r, u, id, ok) ==
    /\ Free(r)
    /\ reqs' = [reqs EXCEPT ![r] =
                  OwnNotification(NewReq("markNotification", u, id),
                                  ok /\ NotificationExists(id), FALSE, 404, "updateNotification")]
    /\ UNCHANGED <<notifications, notNotifications>>

\* ...update({ read: true }).eq('id', id).select().single();
\* if (error || !updated) return res.status(500)...
MarkNotificationUpdate(r, ok) ==
    /\ reqs[r].kind = "markNotification" /\ reqs[r].pc = "updateNotification"
    /\ IF ok /\ NotificationExists(reqs[r].id)
       THEN /\ notifications' = [notifications EXCEPT ![reqs[r].id].read = TRUE]
            /\ reqs' = [reqs EXCEPT ![r] = Answer(reqs[r], 200, {reqs[r].id})]
       ELSE /\ notifications' = notifications
            /\ reqs' = [reqs EXCEPT ![r] = Answer(reqs[r], 500, {})]
    /\ UNCHANGED notNotifications

\* router.post('/mark-all-read'):
\* ...update({ read: true }).eq('user_id', userId).eq('read', false)
MarkAllNotificationsRead(r, u, ok) ==
    /\ Free(r)
    /\ LET req == NewReq("markAllNotifications", u, 0) IN
       IF ok
       THEN /\ notifications' = [i \in 1..Len(notifications) |->
                                   IF i \in NotificationsOf(u, TRUE)
                                   THEN [notifications[i] EXCEPT !.read = TRUE]
                                   ELSE notifications[i]]
            /\ reqs' = [reqs EXCEPT ![r] = Answer(req, 200, {})]
       ELSE /\ notifications' = notifications
            /\ reqs' = [reqs EXCEPT ![r] = Answer(req, 500, {})]
    /\ UNCHANGED notNotifications

\* router.delete('/:id'): read and ownership test as in PATCH /:id/read
DeleteNotificationRead(r, u, id, ok) ==
    /\ Free(r)
    /\ reqs' = [reqs EXCEPT ![r] =
                  OwnNotification(NewReq("deleteNotification", u, id),
                                  ok /\ NotificationExists(id), FALSE, 404, "deleteNotification")]
    /\ UNCHANGED <<notifications, notNotifications>>

\* ...from('notifications').delete().eq('id', id): no error when the row is
\* already gone
DeleteNotificationDelete(r, ok) ==
    /\ reqs[r].kind = "deleteNotification" /\ reqs[r].pc = "deleteNotification"
    /\ IF ok
       THEN /\ notifications' = [notifications EXCEPT ![reqs[r].id] = NoNotification]
            /\ reqs' = [reqs EXCEPT ![r] = Answer(reqs[r], 200, {})]
       ELSE /\ notifications' = notifications
            /\ reqs' = [reqs EXCEPT ![r] = Answer(reqs[r], 500, {})]
    /\ UNCHANGED notNotifications

(* the notification routes, Prisma version: a failed call throws and the
   catch block answers 500 *)
\* router.patch('/:id/read'): prisma.notification.findUnique({ where: { id } })
PrismaMarkNotificationRead(r, u, id, ok) ==
    /\ Free(r)
    /\ reqs' = [reqs EXCEPT ![r] =
                  OwnNotification(NewReq("prismaMarkNotification", u, id),
                                  NotificationExists(id), ~ok, 500, "updateNotification")]
    /\ UNCHANGED <<notifications, notNotifications>>

\* prisma.notification.update({ where: { id }, data: { read: true } }): throws
\* when the record is gone
PrismaMarkNotificationUpdate(r, ok) ==
    /\ reqs[r].kind = "prismaMarkNotification" /\ reqs[r].pc = "updateNotification"
    /\ IF ok /\ NotificationExists(reqs[r].id)
       THEN /\ notifications' = [notifications EXCEPT ![reqs[r].id].read = TRUE]
            /\ reqs' = [reqs EXCEPT ![r] = Answer(reqs[r], 200, {reqs[r].id})]
       ELSE /\ notifications' = notifications
            /\ reqs' = [reqs EXCEPT ![r] = Answer(reqs[r], 500, {})]
    /\ UNCHANGED notNotifications

\* router.delete('/:id'): prisma.notification.findUnique({ where: { id } })
PrismaDeleteNotificationRead(r, u, id, ok) ==
    /\ Free(r)
    /\ reqs' = [reqs EXCEPT ![r] =
                  OwnNotification(NewReq("prismaDeleteNotification", u, id),
                                  NotificationExists(id), ~ok, 500, "deleteNotification")]
    /\ UNCHANGED <<notifications, notNotifications>>

\* prisma.notification.delete({ where: { id } }): throws when the record is gone
PrismaDeleteNotificationDelete(r, ok) ==
    /\ reqs[r].kind = "prismaDeleteNotification" /\ reqs[r].pc = "deleteNotification"
    /\ IF ok /\ NotificationExists(reqs[r].id)
       THEN /\ notifications' = [notifications EXCEPT ![reqs[r].id] = NoNotification]
            /\ reqs' = [reqs EXCEPT ![r] = Answer(reqs[r], 200, {})]
       ELSE /\ notifications' = notifications
            /\ reqs' = [reqs EXCEPT ![r] = Answer(reqs[r], 500, {})]
    /\ UNCHANGED notNotifications

(* ------------------------------ Socket.IO ------------------------------ *)
\* setupSocketIO (server).  A connection is the id its token carried, the
\* rooms it is in and whether it is still open.
MaxConns == 2
SocketUsers == {"m1", "v1"}

\* `id` of the payload of a token that passes jwt.verify: a user's id, or
\* nothing when the token names its user elsewhere (a Supabase session token,
\* which is what POST /auth/login hands out, has `sub`); `user_${undefined}`
\* is the text "user_undefined"
TokenIds == SocketUsers \cup {"undefined"}

\* `user_${userId}` and `project_${projectId}`
UserRoom(userId) == "user_" \o userId
ProjectRoom(projectId) == "project_" \o projectId

\* what a client may send as projectId with join_project and leave_project:
\* the id of a project, or any text of its choosing
RoomArgs == {"1", "user_m1"}

\* what a client may send as receiverId with typing
TypingArgs == SocketUsers \cup {"undefined"}

NoEmission == [event |-> "", to |-> "", got |-> {}]

\* the sockets in a room
InRoom(room) == {k \in 1..Len(conns) : conns[k].open /\ room \in conns[k].rooms}

\* io.to(room).emit(event, ...): every socket in the room gets the event
EmitTo(userId, event) ==
    delivered' = [event |-> event, to |-> userId, got |-> InRoom(UserRoom(userId))]

\* io.use(...): no token or a token that fails jwt.verify ends the handshake;
\* io.on('connection'): socket.join(`user_${userId}`)
SocketConnect(verified, id) ==
    /\ Len(conns) < MaxConns
    /\ conns' = IF verified
                THEN Append(conns, [user |-> id, rooms |-> {UserRoom(id)}, open |-> TRUE])
                ELSE conns
    /\ UNCHANGED <<delivered, socket, sockets>>

\* socket.on('disconnect'): the socket has left every room
SocketDisconnect(k) ==
    /\ k \in 1..Len(conns) /\ conns[k].open
    /\ conns' = [conns EXCEPT ![k].open = FALSE, ![k].rooms = {}]
    /\ UNCHANGED <<delivered, socket, sockets>>

JoinProjectAsSent(k, projectId) ==
    /\ k \in 1..Len(conns) /\ conns[k].open
    /\ conns' = [conns EXCEPT ![k].rooms = @ \cup {projectId}]
    /\ UNCHANGED <<delivered, socket, sockets>>

\* socket.on('join_project', (projectId) => socket.join(`project_${projectId}`))
JoinProject(k, projectId) ==
    /\ k \in 1..Len(conns) /\ conns[k].open
    /\ conns' = [conns EXCEPT ![k].rooms = @ \cup {ProjectRoom(projectId)}]
    /\ UNCHANGED <<delivered, socket, sockets>>

\* socket.on('leave_project', (projectId) => socket.leave(`project_${projectId}`))
LeaveProject(k, projectId) ==
    /\ k \in 1..Len(conns) /\ conns[k].open
    /\ conns' = [conns EXCEPT ![k].rooms = @ \ {ProjectRoom(projectId)}]
    /\ UNCHANGED <<delivered, socket, sockets>>

\* socket.on('typing', (data) => io.to(`user_${data.receiverId}`).emit('user_typing', ...))
Typing(k, receiverId) ==
    /\ k \in 1..Len(conns) /\ conns[k].open
    /\ EmitTo(receiverId, "user_typing")
    /\ UNCHANGED <<conns, socket, sockets>>

\* io.to(`user_${receiverId}`).emit('message', message) and
\* io.to(`user_${...}`).emit('notification', ...) of the routes, notifyUsers
EmitToUser(userId, event) ==
    /\ EmitTo(userId, event)
    /\ UNCHANGED <<conns, socket, sockets>>

(* SocketService of the web client.  sockets: what became of each socket that
   connect created, "connecting" (io() has returned, the transport is not up,
   or is down and the socket is reconnecting), "connected" or "closed"
   (disconnect() was called on it); socket: this.socket, 0 for null *)
MaxSockets == 4

\* connect(token): if (this.socket?.connected) return this.socket;
\* this.socket = io(SOCKET_URL, { auth: { token } })
ClientConnect ==
    /\ IF socket # 0 /\ sockets[socket] = "connected"
       THEN UNCHANGED <<socket, sockets>>
       ELSE /\ Len(sockets) < MaxSockets
            /\ sockets' = Append(sockets, "connecting")
            /\ socket' = Len(sockets) + 1
    /\ UNCHANGED <<conns, delivered>>

\* disconnect(): if (this.socket) { this.socket.disconnect(); this.socket = null }
ClientDisconnect ==
    /\ IF socket # 0
       THEN /\ sockets' = [sockets EXCEPT ![socket] = "closed"]
            /\ socket' = 0
       ELSE UNCHANGED <<socket, sockets>>
    /\ UNCHANGED <<conns, delivered>>

\* the socket's 'connect' event: the transport is up
SocketOpens(i) ==
    /\ i \in 1..Len(sockets) /\ sockets[i] = "connecting"
    /\ sockets' = [sockets EXCEPT ![i] = "connected"]
    /\ UNCHANGED <<socket, conns, delivered>>

\* the socket's 'disconnect' event without a call of disconnect(): the
\* transport went down and the socket reconnects by itself
SocketDrops(i) ==
    /\ i \in 1..Len(sockets) /\ sockets[i] = "connected"
    /\ sockets' = [sockets EXCEPT ![i] = "connecting"]
    /\ UNCHANGED <<socket, conns, delivered>>

(* --------------------------- specifications ---------------------------- *)
\* the store as a status change found it, with the request line
Snapshot(id, status) == [bids |-> bids, projStatus |-> projStatus, id |-> id,
                         status |-> status]
NoSnapshot == [bids |-> <<>>, projStatus |-> [p \in Projects |-> ""], id |-> 0,
               status |-> ""]

\* outcomes of a store write: the specifications below that do not say
\* otherwise run over a store that carries every operation out
StoreWorks == {TRUE}
StoreMayFail == BOOLEAN

\* two managers with one property and one project open for bidding each, no
\* bid yet, no handler running
Init ==
    /\ projStatus = [p \in Projects |-> "OPEN"]
    /\ bids = <<>>
    /\ reqs = [r \in Reqs |-> IdleReq]
    /\ pre = NoSnapshot
    /\ properties = [i \in PropertyIds |-> IF i = 1 THEN "m1" ELSE IF i = 2 THEN "m2" ELSE ""]
    /\ projRows = [p \in Projects |-> [property_id |-> p,
                                        manager_id |-> IF p = 1 THEN "m1" ELSE "m2"]]
    /\ messages = <<>>
    /\ documents = <<>>
    /\ storage = {}
    /\ notifications = <<>>
    /\ conns = <<>>
    /\ delivered = NoEmission
    /\ socket = 0
    /\ sockets = <<>>

\* a request arrives and runs up to its first store read: requester from U,
\* project id from P, new amount from A; at most K bid rows are ever inserted
Begin(r, U, P, A, K) ==
    \/ \E u \in U, p \in P, a \in CreateAmounts :
          Len(bids) + PendingInserts < K /\ CreateBidReadProject(r, u, p, a)
    \/ \E u \in U, id \in BidIds, a \in A : UpdateBidRead(r, u, id, a)
    \/ \E u \in U, id \in BidIds : WithdrawBidRead(r, u, id)
    \/ \E u \in U, id \in BidIds, st \in StatusInputs : PatchStatusRead(r, u, id, st)
    \/ \E u \in U, p \in P, st \in ProjectStatusInputs : UpdateProjectRead(r, u, p, st)

\* a handler goes on after an await; O: the outcomes the store may give a write
\* (TRUE: carried out, FALSE: failed)
Step(r, O) ==
    \/ CreateBidCheckExisting(r)
    \/ \E ok \in O : CreateBidInsert(r, ok)
    \/ \E ok \in O : CreateBidNotify(r, ok)
    \/ CreateBidEmit(r)
    \/ \E ok \in O : UpdateBidWrite(r, ok)
    \/ \E ok \in O : WithdrawBidWrite(r, ok)
    \/ \E ok \in O : PatchStatusUpdate(r, ok)
    \/ \E ok \in O : PatchStatusAward(r, ok)
    \/ \E ok \in O : PatchStatusRejectOthers(r, ok)
    \/ \E ok \in O : PatchStatusNotify(r, ok)
    \/ PatchStatusEmit(r)
    \/ \E ok \in O : UpdateProjectWrite(r, ok)

\* Spec: requests on one project by its manager and two vendors arrive at any
\* time and their steps interleave freely
Next ==
    \/ \E r \in Reqs : Begin(r, {"m1", "v1", "v2"}, {1}, {Undefined, 10}, MaxBids)
                       /\ UNCHANGED <<pre, ownership, messages, docs, notifications, realtime>>
    \/ \E r \in Reqs : Step(r, StoreWorks) /\ UNCHANGED <<ownership, messages, docs, notifications, realtime>>

Spec == Init /\ [][Next]_vars

\* SubmitSpec: as Spec, with a single vendor who may submit once more
SubmitNext ==
    \/ \E r \in Reqs : Begin(r, {"m1", "v1"}, {1}, {Undefined, 10}, MaxBids + 1)
                       /\ UNCHANGED <<pre, ownership, messages, docs, notifications, realtime>>
    \/ \E r \in Reqs : Step(r, StoreWorks) /\ UNCHANGED <<ownership, messages, docs, notifications, realtime>>

SubmitSpec == Init /\ [][SubmitNext]_vars

\* UpdateSpec: as Spec, with a single vendor who edits the amount of his bids
UpdateNext ==
    \/ \E r \in Reqs : Begin(r, {"m1", "v1"}, {1}, {Undefined} \cup Amounts, MaxBids)
                       /\ UNCHANGED <<pre, ownership, messages, docs, notifications, realtime>>
    \/ \E r \in Reqs : Step(r, StoreWorks) /\ UNCHANGED <<ownership, messages, docs, notifications, realtime>>

UpdateSpec == Init /\ [][UpdateNext]_vars

\* SeqSpec: a manager, two vendors and an admin, both projects, one request at a time: a
\* request starts only when no other is in flight.  pre is the store as a status
\* change found it.
Quiet == \A r \in Reqs : ~InFlight(r)

SeqNext ==
    \/ \E r \in Reqs : /\ Quiet
                       /\ Begin(r, {"m1", "v1", "v2", "a1"}, Projects, {Undefined, 10}, MaxBids)
                       /\ pre' = IF reqs'[r].kind = "patchStatus" /\ InFlight(r)'
                                 THEN Snapshot(reqs'[r].id, reqs'[r].status)
                                 ELSE NoSnapshot
                       /\ UNCHANGED <<ownership, messages, docs, notifications, realtime>>
    \/ \E r \in Reqs : Step(r, StoreWorks) /\ UNCHANGED <<ownership, messages, docs, notifications, realtime>>

SeqSpec == Init /\ [][SeqNext]_vars

\* FailSpec: one request at a time on one project, submissions through either
\* implementation of POST /bids, over a store that may fail any write
PrismaStep(r, O) ==
    \/ PrismaCreateBidCheckExisting(r)
    \/ \E ok \in O : PrismaCreateBidInsert(r, ok)
    \/ \E ok \in O : PrismaCreateBidNotify(r, ok)
    \/ PrismaCreateBidEmit(r)

FailBegin(r) ==
    \/ Begin(r, {"m1", "v1", "v2"}, {1}, {Undefined, 10}, MaxBids)
    \/ \E u \in {"m1", "v1", "v2"}, a \in CreateAmounts :
          Len(bids) + PendingInserts < MaxBids /\ PrismaCreateBidReadProject(r, u, 1, a)

FailNext ==
    \/ \E r \in Reqs : /\ Quiet
                       /\ FailBegin(r)
                       /\ pre' = IF reqs'[r].kind = "patchStatus" /\ InFlight(r)'
                                 THEN Snapshot(reqs'[r].id, reqs'[r].status)
                                 ELSE NoSnapshot
                       /\ UNCHANGED <<ownership, messages, docs, notifications, realtime>>
    \/ \E r \in Reqs : Step(r, StoreMayFail) /\ UNCHANGED <<ownership, messages, docs, notifications, realtime>>
    \/ \E r \in Reqs : PrismaStep(r, StoreMayFail) /\ UNCHANGED <<ownership, messages, docs, notifications, realtime>>

FailSpec == Init /\ [][FailNext]_vars

\* OwnerSpec: the property and project routes, one request at a time, by both
\* managers and an admin, over a store that may fail a write
OwnerUsers == {"m1", "m2", "a1"}

OwnerBegin(r) ==
    \/ \E u \in OwnerUsers, id \in PropertyIds : GetProperty(r, u, id)
    \/ \E u \in OwnerUsers : ListProperties(r, u)
    \/ \E u \in OwnerUsers, ok \in StoreMayFail : CreateProperty(r, u, ok)
    \/ \E u \in OwnerUsers, id \in PropertyIds : UpdatePropertyRead(r, u, id)
    \/ \E u \in OwnerUsers, id \in PropertyIds : DeletePropertyRead(r, u, id)
    \/ \E u \in OwnerUsers, id \in Projects : GetProject(r, u, id)
    \/ \E u \in OwnerUsers, st \in StatusFilters, ty \in TypeFilters : ListProjects(r, u, st, ty)
    \/ \E u \in OwnerUsers, prop \in PropertyIds : CreateProjectRead(r, u, prop)
    \/ \E u \in OwnerUsers, id \in Projects : DeleteProjectRead(r, u, id)
    \/ \E u \in OwnerUsers, id \in Projects, st \in {"", "CANCELLED"} :
          UpdateProjectRead(r, u, id, st) /\ UNCHANGED <<pre, ownership, messages, docs, notifications, realtime>>

OwnerStep(r, O) ==
    \/ \E ok \in O : UpdatePropertyWrite(r, ok)
    \/ \E ok \in O : DeletePropertyWrite(r, ok)
    \/ \E ok \in O : CreateProjectWrite(r, ok)
    \/ \E ok \in O : DeleteProjectWrite(r, ok)
    \/ \E ok \in O : UpdateProjectWrite(r, ok) /\ UNCHANGED <<ownership, messages, docs, notifications, realtime>>

OwnerNext ==
    \/ \E r \in Reqs : Quiet /\ OwnerBegin(r) /\ UNCHANGED <<messages, docs, notifications, realtime>>
    \/ \E r \in Reqs : OwnerStep(r, StoreMayFail) /\ UNCHANGED <<messages, docs, notifications, realtime>>

OwnerSpec == Init /\ [][OwnerNext]_vars

\* ReadSpec: as SeqSpec without the admin, with both managers and with the
\* reads of projects and bids
ReadUsers == {"m1", "m2", "v1", "v2"}

ReadBegin(r) ==
    \/ \E u \in ReadUsers, id \in Projects : GetProject(r, u, id)
    \/ \E u \in ReadUsers, st \in StatusFilters, ty \in TypeFilters : ListProjects(r, u, st, ty)
    \/ \E u \in ReadUsers, p \in ProjectIdFilters, st \in BidStatusFilters :
          ListBidsBegin(r, u, p, st)
    \/ \E u \in ReadUsers, p \in ProjectIdFilters, st \in BidStatusFilters :
          PrismaListBidsBegin(r, u, p, st)

ReadStep(r, O) ==
    \/ \E ok \in O : ListBidsQuery(r, ok)
    \/ \E ok \in O : PrismaListBidsFind(r, ok)

ReadNext ==
    \/ \E r \in Reqs : /\ Quiet
                       /\ Begin(r, {"m1", "v1", "v2"}, Projects, {Undefined}, MaxBids)
                       /\ UNCHANGED <<pre, ownership, messages, docs, notifications, realtime>>
    \/ \E r \in Reqs : Quiet /\ ReadBegin(r) /\ UNCHANGED <<messages, docs, notifications, realtime>>
    \/ \E r \in Reqs : Step(r, StoreWorks) /\ UNCHANGED <<ownership, messages, docs, notifications, realtime>>
    \/ \E r \in Reqs : ReadStep(r, StoreWorks) /\ UNCHANGED <<messages, docs, notifications, realtime>>

ReadSpec == Init /\ [][ReadNext]_vars

\* MsgSpec: the message routes, one request at a time by a manager, a vendor
\* and an admin, over a store that may fail a write
MsgBegin(r) ==
    \/ \E u \in MsgUsers, receiver \in MsgUsers \cup {Nobody}, c \in Contents :
          SendMessageReadReceiver(r, u, receiver, c)
    \/ \E u \in MsgUsers : GetConversations(r, u)
    \/ \E u \in MsgUsers, P \in PathParams : GetWithRead(r, u, P)
    \/ \E u \in MsgUsers, id \in MessageIds : MarkReadRead(r, u, id)

MsgStep(r, O) ==
    \/ \E ok \in O : SendMessageInsert(r, ok)
    \/ SendMessageReadSender(r)
    \/ \E ok \in O : SendMessageNotify(r, ok)
    \/ SendMessageEmit(r)
    \/ \E ok \in O : GetWithMarkRead(r, ok)
    \/ \E ok \in O : MarkReadUpdate(r, ok)

MsgNext ==
    \/ \E r \in Reqs : Quiet /\ MsgBegin(r) /\ UNCHANGED <<docs, notifications, realtime>>
    \/ \E r \in Reqs : MsgStep(r, StoreMayFail) /\ UNCHANGED <<docs, notifications, realtime>>

MsgSpec == Init /\ [][MsgNext]_vars

\* ChatSpec: a manager and a vendor write to and read each other, requests
\* arriving at any time and their steps interleaving freely
ChatUsers == {"m1", "v1"}

ChatBegin(r) ==
    \/ \E u \in ChatUsers, receiver \in ChatUsers :
          SendMessageReadReceiver(r, u, receiver, "hello")
    \/ \E u \in ChatUsers : GetConversations(r, u)
    \/ \E u \in ChatUsers, v \in ChatUsers : GetWithRead(r, u, PlainParam(v))
    \/ \E u \in ChatUsers, id \in MessageIds : MarkReadRead(r, u, id)

ChatNext ==
    \/ \E r \in Reqs : ChatBegin(r) /\ UNCHANGED <<docs, notifications, realtime>>
    \/ \E r \in Reqs : MsgStep(r, StoreWorks) /\ UNCHANGED <<docs, notifications, realtime>>

ChatSpec == Init /\ [][ChatNext]_vars

\* DocSpec: one bid at most, on project 1; uploads, downloads and deletions of
\* documents by both managers, a vendor and an admin, one request at a time,
\* over a store that may fail a write
DocUsers == {"m1", "m2", "v1", "a1"}

DocBegin(r) ==
    \/ \E u \in DocUsers, hasFile \in BOOLEAN, p \in {0} \cup Projects, b \in {0, 1} :
          UploadBegin(r, u, hasFile, p, b)
    \/ \E u \in DocUsers, id \in DocIds : GetDocumentRead(r, u, id)
    \/ \E u \in DocUsers, id \in DocIds : DeleteDocumentRead(r, u, id)

DocStep(r, O) ==
    \/ UploadCheckBid(r)
    \/ \E ok \in O : UploadStore(r, ok)
    \/ \E out \in InsertOutcomes : UploadInsert(r, out)
    \/ \E ok \in O : UploadCleanup(r, ok)
    \/ \E ok \in O : GetDocumentSign(r, ok)
    \/ \E ok \in O : DeleteDocumentRemove(r, ok)
    \/ \E ok \in O : DeleteDocumentDelete(r, ok)

DocNext ==
    \/ \E r \in Reqs : /\ Quiet
                       /\ Begin(r, {"m1", "v1"}, {1}, {Undefined}, 1)
                       /\ UNCHANGED <<pre, ownership, messages, docs, notifications, realtime>>
    \/ \E r \in Reqs : Step(r, StoreWorks) /\ UNCHANGED <<ownership, messages, docs, notifications, realtime>>
    \/ \E r \in Reqs : Quiet /\ DocBegin(r) /\ UNCHANGED <<notifications, realtime>>
    \/ \E r \in Reqs : DocStep(r, StoreMayFail) /\ UNCHANGED <<notifications, realtime>>

DocSpec == Init /\ [][DocNext]_vars

\* NotifSpec: the notification routes of both implementations for a manager
\* and a vendor, requests arriving at any time and their steps interleaving
\* freely, rows inserted at any time, over a store that may fail
NotifUsers == {"m1", "v1"}

NotifBegin(r, O) ==
    \/ \E u \in NotifUsers, unreadOnly \in BOOLEAN, ok \in O : ListNotifications(r, u, unreadOnly, ok)
    \/ \E u \in NotifUsers, ok \in O : UnreadCount(r, u, ok)
    \/ \E u \in NotifUsers, id \in NotificationIds, ok \in O : MarkNotificationRead(r, u, id, ok)
    \/ \E u \in NotifUsers, ok \in O : MarkAllNotificationsRead(r, u, ok)
    \/ \E u \in NotifUsers, id \in NotificationIds, ok \in O : DeleteNotificationRead(r, u, id, ok)
    \/ \E u \in NotifUsers, id \in NotificationIds, ok \in O : PrismaMarkNotificationRead(r, u, id, ok)
    \/ \E u \in NotifUsers, id \in NotificationIds, ok \in O : PrismaDeleteNotificationRead(r, u, id, ok)

NotifStep(r, O) ==
    \/ \E ok \in O : MarkNotificationUpdate(r, ok)
    \/ \E ok \in O : DeleteNotificationDelete(r, ok)
    \/ \E ok \in O : PrismaMarkNotificationUpdate(r, ok)
    \/ \E ok \in O : PrismaDeleteNotificationDelete(r, ok)

NotifNext ==
    \/ \E u \in NotifUsers : InsertNotification(u) /\ UNCHANGED realtime
    \/ \E r \in Reqs : NotifBegin(r, StoreMayFail) /\ UNCHANGED realtime
    \/ \E r \in Reqs : NotifStep(r, StoreMayFail) /\ UNCHANGED realtime

NotifSpec == Init /\ [][NotifNext]_vars

\* SocketSpec: the Socket.IO server with connections of a manager, a vendor
\* and a token without id, the events clients send and the events the routes
\* emit
SocketNext ==
    /\ \/ \E verified \in BOOLEAN, id \in TokenIds : SocketConnect(verified, id)
       \/ \E k \in 1..MaxConns : SocketDisconnect(k)
       \/ \E k \in 1..MaxConns, projectId \in RoomArgs : JoinProject(k, projectId)
       \/ \E k \in 1..MaxConns, projectId \in RoomArgs : LeaveProject(k, projectId)
       \/ \E k \in 1..MaxConns, receiverId \in TypingArgs : Typing(k, receiverId)
       \/ \E u \in SocketUsers, event \in {"message", "notification"} : EmitToUser(u, event)
    /\ UNCHANGED <<reqs, notifications, notNotifications>>

SocketSpec == Init /\ [][SocketNext]_vars

\* ClientSpec: the web client calling connect and disconnect in any order
\* while its sockets come up and go down
ClientNext ==
    /\ \/ ClientConnect
       \/ ClientDisconnect
       \/ \E i \in 1..MaxSockets : SocketOpens(i)
       \/ \E i \in 1..MaxSockets : SocketDrops(i)
    /\ UNCHANGED <<reqs, notifications, notNotifications>>

ClientSpec == Init /\ [][ClientNext]_vars

(* ------------------------------ properties ----------------------------- *)
TerminalStatus == {"ACCEPTED", "REJECTED", "WITHDRAWN"}
BidsOn(p) == {i \in 1..Len(bids) : bids[i].project_id = p}
AcceptedOn(p) == {i \in BidsOn(p) : bids[i].status = "ACCEPTED"}
PendingOn(p) == {i \in BidsOn(p) : bids[i].status = "PENDING"}
\* request r takes a step
Moves(r) == reqs'[r] # reqs[r]
Accepting(r) == reqs[r].kind = "patchStatus" /\ reqs[r].status = "ACCEPTED" /\ InFlight(r)

\* C1: in every reachable state each project has at most one bid whose status
\* is ACCEPTED.
C1_AtMostOneAccepted == \A p \in Projects : Cardinality(AcceptedOn(p)) <= 1

\* C2: two accept requests in progress at the same time for two different bids
\* of the same project never both reach their success response (pc = "emit":
\* every write is done and res.json(updatedBid) is all that is left), and when
\* one of them is there the project is AWARDED with exactly one ACCEPTED bid.
C2_ConcurrentAcceptsOneWinner ==
    \A r1, r2 \in Reqs :
       ( /\ r1 # r2 /\ Accepting(r1) /\ Accepting(r2)
         /\ reqs[r1].id # reqs[r2].id
         /\ reqs[r1].bid.project_id = reqs[r2].bid.project_id
         /\ reqs[r1].pc = "emit" )
       => /\ reqs[r2].pc # "emit"
          /\ projStatus[reqs[r1].bid.project_id] = "AWARDED"
          /\ Cardinality(AcceptedOn(reqs[r1].bid.project_id)) = 1

\* C3: in no reachable state, intermediate ones included, is a project AWARDED
\* while a bid on it is still PENDING.
C3_AwardedHasNoPending ==
    \A p \in Projects : projStatus[p] = "AWARDED" => PendingOn(p) = {}

\* C4: a bid whose status is ACCEPTED, REJECTED or WITHDRAWN never changes
\* status again, whatever step is taken.
C4_TerminalIsTerminal ==
    [][\A i \in 1..Len(bids) :
          bids[i].status \in TerminalStatus => bids'[i].status = bids[i].status]_vars

\* C5: when an accept of bid B on project P that ran alone has responded, P is
\* AWARDED, B is ACCEPTED, every other bid on P that was PENDING is REJECTED,
\* every bid on P that was WITHDRAWN or REJECTED is as it was, and so is every
\* bid of another project.
AcceptDone(r) ==
    /\ reqs[r].kind = "patchStatus" /\ reqs[r].res = 200
    /\ pre.status = "ACCEPTED"

C6_AcceptNeedsPendingAndOpen ==
    [][\A r \in Reqs :
          (Accepting(r) /\ Moves(r)) =>
             /\ reqs[r].pc = "updateStatus" =>
                   /\ bids[reqs[r].id].status = "PENDING"
                   /\ projStatus[reqs[r].bid.project_id] = "OPEN"
             /\ reqs[r].pc = "awardProject" =>
                   projStatus[reqs[r].bid.project_id] = "OPEN"]_vars

\* C7: a submission on a project that is not OPEN ends with an error response
\* and inserts no bid and no notification; a submission on an OPEN project
\* goes on, a vendor without a bid on the project passes the check, the
\* handler then inserts exactly one PENDING bid for that vendor and project,
\* responds 201, and none of its steps changes a project's status.
C7_SubmitRespectsProjectStatus ==
    [][\A r \in Reqs :
          /\ \A u \in Vendors, p \in Projects, a \in CreateAmounts :
                (Free(r) /\ reqs'[r].kind = "createBid" /\ CreateBidReadProject(r, u, p, a)) =>
                   /\ projStatus' = projStatus /\ bids' = bids
                   /\ IF projStatus[p] = "OPEN"
                      THEN InFlight(r)'
                      ELSE /\ ~InFlight(r)' /\ reqs'[r].res >= 400
                           /\ reqs'[r].created = 0 /\ reqs'[r].notified = {}
          /\ (reqs[r].kind = "createBid" /\ InFlight(r) /\ Moves(r)) =>
                /\ projStatus' = projStatus
                /\ (reqs[r].pc = "checkExisting" /\ BidsOf(reqs[r].id, reqs[r].user) = {})
                      => InFlight(r)'
                /\ IF reqs[r].pc = "insertBid"
                   THEN bids' = Append(bids, [project_id |-> reqs[r].id,
                                              vendor_id |-> reqs[r].user,
                                              status |-> "PENDING",
                                              amount |-> reqs[r].amount])
                   ELSE bids' = bids
                /\ (~InFlight(r)' /\ reqs[r].pc # "checkExisting")
                      => reqs'[r].res = 201 /\ reqs'[r].created # 0]_vars

\* a submission was refused although no bid exists at all, so it was refused
\* for the project's status
C7_Witness ==
    \E r \in Reqs : /\ reqs[r].kind = "createBid" /\ reqs[r].res = 400
                    /\ reqs[r].notified = {}
                    /\ bids = <<>>
                    /\ \E p \in Projects : projStatus[p] # "OPEN"

\* C8: at most one bid exists per (project, vendor) pair in every reachable
\* state.
C8_OneBidPerVendor ==
    \A p \in Projects, v \in Vendors : Cardinality(BidsOf(p, v)) <= 1

\* C9: when the existing-bid check of a submission runs while the vendor
\* already has a bid on the project, the submission ends there with an error:
\* no bid row and no notification is inserted and no bid changes.
C9_SecondBidRejected ==
    [][\A r \in Reqs :
          ( /\ reqs[r].kind = "createBid" /\ reqs[r].pc = "checkExisting" /\ Moves(r)
            /\ BidsOf(reqs[r].id, reqs[r].user) # {} )
          => /\ ~InFlight(r)' /\ reqs'[r].res >= 400
             /\ reqs'[r].created = 0 /\ reqs'[r].notified = {}
             /\ bids' = bids]_vars

\* C10: the content of a bid (its amount) changes only in a step of an update
\* request of the bid's own vendor and only while the bid is PENDING: the
\* content of a bid that is no longer PENDING never changes.
C10_ContentFrozenUnlessPending ==
    [][\A i \in 1..Len(bids) :
          bids'[i].amount # bids[i].amount =>
             /\ bids[i].status = "PENDING"
             /\ \E r \in Reqs : /\ reqs[r].kind = "updateBid" /\ Moves(r)
                                /\ reqs[r].id = i
                                /\ reqs[r].user = bids[i].vendor_id]_vars

\* C11: a PATCH /bids/:id/status request that arrives changes no bid and no
\* project in its first step and goes past its checks only for a requester
\* with role PROPERTY_MANAGER who manages the bid's project and only with target
\* status ACCEPTED or REJECTED (any other request has ended there with an
\* error); the later steps of a status change write only ACCEPTED or REJECTED
\* and only to bids of projects the requester manages.
MayPatchStatus(u, id, status) ==
    /\ UserRole[u] = "PROPERTY_MANAGER"
    /\ BidExists(id) /\ ProjectManager[bids[id].project_id] = u
    /\ status \in {"ACCEPTED", "REJECTED"}

C11_StatusChangeNeedsOwningManager ==
    [][\A r \in Reqs :
          /\ (Free(r) /\ reqs'[r].kind = "patchStatus") =>
                /\ bids' = bids /\ projStatus' = projStatus
                /\ IF InFlight(r)'
                   THEN MayPatchStatus(reqs'[r].user, reqs'[r].id, reqs'[r].status)
                   ELSE reqs'[r].res >= 400
          /\ (reqs[r].kind = "patchStatus" /\ InFlight(r) /\ Moves(r)) =>
                /\ MayPatchStatus(reqs[r].user, reqs[r].id, reqs[r].status)
                /\ \A i \in 1..Len(bids) :
                      bids'[i].status # bids[i].status =>
                         /\ bids'[i].status \in {"ACCEPTED", "REJECTED"}
                         /\ ProjectManager[bids[i].project_id] = reqs[r].user]_vars

\* a status change was refused with 403 and every bid is still PENDING on an
\* OPEN project
C11_Witness ==
    \E r \in Reqs : /\ reqs[r].kind = "patchStatus" /\ reqs[r].res = 403
                    /\ bids # <<>>
                    /\ \A i \in 1..Len(bids) : bids[i].status = "PENDING"
                    /\ \A p \in Projects : projStatus[p] = "OPEN"

\* C12: when an accept has responded, a notification row was inserted for the
\* accepted bid's vendor and one for the vendor of every bid the acceptance
\* auto-rejected.
C12_AcceptNotifiesEveryAffectedVendor ==
    \A r \in Reqs : AcceptDone(r) =>
       LET B == pre.id
           P == pre.bids[B].project_id
       IN /\ [user_id |-> pre.bids[B].vendor_id, type |-> "bid_accepted"] \in reqs[r].notified
          /\ \A i \in 1..Len(pre.bids) :
                (i # B /\ pre.bids[i].project_id = P /\ pre.bids[i].status = "PENDING")
                   => \E n \in reqs[r].notified : n.user_id = pre.bids[i].vendor_id

\* C13: whenever a handler emits the 'notification' event to a user's channel,
\* the notification row for that user and of that type has been inserted by
\* the handler before.
EmitsNotification(r) ==
    /\ reqs[r].kind \in {"createBid", "prismaCreateBid", "patchStatus"}
    /\ reqs[r].pc = "emit" /\ Moves(r)

C13_NoPushWithoutStoredRow ==
    [][\A r \in Reqs : EmitsNotification(r) =>
          IF reqs[r].kind = "patchStatus"
          THEN [user_id |-> reqs[r].bid.vendor_id,
                type |-> NotificationType(reqs[r].status)] \in reqs[r].notified
          ELSE [user_id |-> reqs[r].manager_id, type |-> "bid_received"]
                  \in reqs[r].notified]_vars

\* C14: once the bid insert or the bid status update of a request is in the
\* store, the steps that write the notification and push it never end the
\* request with an error response.
C14_NotificationFailureSuppressed ==
    [][\A r \in Reqs :
          ( /\ reqs[r].kind \in {"createBid", "prismaCreateBid", "patchStatus"}
            /\ reqs[r].pc \in {"notify", "emit"} /\ Moves(r)
            /\ ~InFlight(r)' )
          => reqs'[r].res < 400]_vars

\* C15: when an accept request has ended, whatever its response, either all of
\* its mutations are in the store (bid ACCEPTED, project AWARDED, no sibling
\* that was PENDING still PENDING) or the bids and projects are as the request
\* found them.
AcceptEnded(r) ==
    /\ reqs[r].kind = "patchStatus" /\ ~InFlight(r)
    /\ pre.status = "ACCEPTED"

C15_AcceptAllOrNothing ==
    \A r \in Reqs : AcceptEnded(r) =>
       LET B == pre.id
           P == pre.bids[B].project_id
       IN \/ bids = pre.bids /\ projStatus = pre.projStatus
          \/ /\ bids[B].status = "ACCEPTED"
             /\ projStatus[P] = "AWARDED"
             /\ \A i \in 1..Len(bids) :
                   (i # B /\ bids[i].project_id = P /\ pre.bids[i].status = "PENDING")
                      => bids[i].status = "REJECTED"

(* ---- ownership of properties and projects ---- *)
\* every project row names a property row, and its manager is that property's
ConsistentOwnership ==
    \A p \in Projects :
        ProjectExists(p) => /\ PropertyExists(projRows[p].property_id)
                            /\ projRows[p].manager_id = properties[projRows[p].property_id]

PropertyKinds == {"getProperty", "updateProperty", "deleteProperty"}
ProjectKinds == {"getProject", "updateProject", "deleteProject"}

\* request r is answered in this step, with a 2xx code
Succeeds(r) == /\ reqs'[r] # reqs[r] /\ ~InFlight(r)'
               /\ reqs'[r].res \in 200..299

\* the requester and the id of the request answered in this step (a handler
\* of one step has them in the answer, a longer one in the request in flight)
Requester(r) == IF InFlight(r) THEN reqs[r].user ELSE reqs'[r].user
RequestedId(r) == IF InFlight(r) THEN reqs[r].id ELSE reqs'[r].id

\* what a property manager's successful request was allowed to touch
ManagerOwnsTarget(r) ==
    LET u == Requester(r)
        id == RequestedId(r)
        kind == reqs'[r].kind
    IN  /\ kind \in PropertyKinds => OwnProperty(u, id)
        /\ kind = "listProperties" => \A i \in reqs'[r].rows : OwnProperty(u, i)
        /\ kind \in ProjectKinds => ProjectExists(id) /\ ProjectManager[id] = u
        /\ kind = "listProjects" =>
               \A p \in reqs'[r].rows : ProjectExists(p) /\ ProjectManager[p] = u
        /\ kind = "createProject" =>
               /\ OwnProperty(u, id)
               /\ \A p \in reqs'[r].rows : projRows'[p] = [property_id |-> id, manager_id |-> u]

\* C17: a property manager reads, updates or deletes a property or a project
\* only when they are its manager and creates a project only under a property
\* they manage; a failed or refused request changes no property or project
\* row; and in every reachable state each project's manager is the manager of
\* the property the project belongs to.
C17_ManagerTouchesOnlyOwn ==
    /\ ConsistentOwnership
    /\ [][/\ ConsistentOwnership'
          /\ \A r \in Reqs :
                (Succeeds(r) /\ UserRole[Requester(r)] = "PROPERTY_MANAGER")
                    => ManagerOwnsTarget(r)
          /\ (properties' # properties \/ projRows' # projRows \/ projStatus' # projStatus)
                => \E r \in Reqs : Succeeds(r)]_vars

\* manager m1 has created a project under a property they created themselves,
\* while the other manager's property and project are still there
C17_Witness ==
    \E r \in Reqs :
        /\ reqs[r].kind = "createProject" /\ reqs[r].res = 201
        /\ reqs[r].user = "m1" /\ reqs[r].id = 3
        /\ \A p \in reqs[r].rows : projRows[p] = [property_id |-> 3, manager_id |-> "m1"]
        /\ \E p \in Projects : ProjectExists(p) /\ ProjectManager[p] = "m2"

\* C18: an ADMIN is never denied a read or a delete of a property or a project
\* that exists: such a request of an admin does not end with 403 or 404.
C18_AdminReadsAndDeletesAnything ==
    \A r \in Reqs :
        (/\ ~InFlight(r) /\ reqs[r].user \in Admins
         /\ \/ reqs[r].kind \in {"getProperty", "deleteProperty"} /\ PropertyExists(reqs[r].id)
            \/ reqs[r].kind \in {"getProject", "deleteProject"} /\ ProjectExists(reqs[r].id))
        => reqs[r].res \notin {403, 404}

(* ---- who reads which project and which bid ---- *)
HoldsBid(u, p) == \E i \in 1..Len(bids) : bids[i].project_id = p /\ bids[i].vendor_id = u

\* the projects a vendor may read
VendorMayRead(u, p) == ProjectExists(p) /\ (projStatus[p] = "OPEN" \/ HoldsBid(u, p))

\* project p passes the filters the request gave
PassesFilters(req, p) == /\ req.status # "" => projStatus[p] = req.status
                         /\ req.type # "" => ProjectTypeOf(p) = req.type

\* C16: a vendor's GET /projects/:id of an existing project succeeds exactly
\* when the project is OPEN or the vendor holds a bid on it, and a vendor's
\* GET /projects returns, for every combination of the status and type
\* filters, exactly the projects passing the filters that are OPEN or on which
\* the vendor holds a bid.
C16_VendorReadsOpenOrOwnBidProjects ==
    \A r \in Reqs :
        (~InFlight(r) /\ reqs[r].user \in Vendors) =>
            /\ (reqs[r].kind = "getProject" /\ ProjectExists(reqs[r].id))
                  => (reqs[r].res = 200 <=> VendorMayRead(reqs[r].user, reqs[r].id))
            /\ reqs[r].kind = "listProjects"
                  => reqs[r].rows = {p \in Projects : /\ VendorMayRead(reqs[r].user, p)
                                                      /\ PassesFilters(reqs[r], p)}

\* C19: GET /bids, in the Supabase and in the Prisma implementation and for
\* every combination of the projectId and status filters, returns to a vendor
\* only bids the vendor submitted and to a property manager only bids on
\* projects the manager manages.
C19_BidListOnlyOwn ==
    \A r \in Reqs :
        (~InFlight(r) /\ reqs[r].kind \in {"listBids", "prismaListBids"}) =>
            \A i \in reqs[r].rows :
                /\ UserRole[reqs[r].user] = "VENDOR" => bids[i].vendor_id = reqs[r].user
                /\ UserRole[reqs[r].user] = "PROPERTY_MANAGER"
                      => ProjectManager[bids[i].project_id] = reqs[r].user

(* ---- who reads and marks which message ---- *)
\* C20: the conversation list and GET /messages/with/:userId return a message
\* only to its sender or its receiver, whatever their role, and the read flag
\* of a message changes only in a step of a request of its receiver.
C20_MessagesOnlyForParties ==
    [][/\ \A r \in Reqs :
             (~InFlight(r)' /\ reqs'[r].kind \in {"getConversations", "getWith"})
                 => \A i \in reqs'[r].rows :
                        reqs'[r].user \in {messages'[i].sender_id, messages'[i].receiver_id}
       /\ \A i \in 1..Len(messages) :
             messages'[i].read # messages[i].read
                 => \E r \in Reqs : /\ InFlight(r) /\ reqs'[r] # reqs[r]
                                     /\ reqs[r].kind \in {"getWith", "markRead"}
                                     /\ reqs[r].user = messages[i].receiver_id]_vars

(* ---- conversations ---- *)
\* request r, reading a conversation, makes its mark-as-read step
ThreadMarkStep(r) == /\ reqs[r].kind = "getWith" /\ reqs[r].pc = "markRead"
                     /\ reqs'[r] # reqs[r]

\* message i is an unread message from the counterpart of request r to its reader
UnreadFromCounterpart(r, i) == /\ messages[i].sender_id = reqs[r].param.first
                               /\ messages[i].receiver_id = reqs[r].user
                               /\ ~messages[i].read

Involving(u) == {i \in 1..Len(messages) : u \in {messages[i].sender_id, messages[i].receiver_id}}

\* C22: the conversation list of a user has exactly one entry per counterpart
\* the user exchanged a message with; the entry's lastMessage is the newest
\* message between the two, its unreadCount the number of unread messages
\* from the counterpart to the user; entries come newest conversation first.
C22_ConversationList ==
    \A u \in MsgUsers :
        LET convs == Conversations(u)
            mine == Involving(u)
        IN /\ {convs[k].partnerId : k \in 1..Len(convs)} = {Partner(u, i) : i \in mine}
           /\ \A k, l \in 1..Len(convs) :
                 k < l => /\ convs[k].partnerId # convs[l].partnerId
                          /\ convs[k].lastMessage > convs[l].lastMessage
           /\ \A k \in 1..Len(convs) :
                 LET with == {i \in mine : Partner(u, i) = convs[k].partnerId} IN
                 /\ convs[k].lastMessage \in with
                 /\ \A i \in with : i <= convs[k].lastMessage
                 /\ convs[k].unreadCount =
                       Cardinality({i \in with : /\ messages[i].sender_id = convs[k].partnerId
                                                  /\ messages[i].receiver_id = u
                                                  /\ ~messages[i].read})

\* m1 got a list of two conversations, one of them with an unread message to
\* m1 and one in which m1's own message is still unread by the partner
C22_Witness ==
    \E r \in Reqs :
        /\ reqs[r].kind = "getConversations" /\ reqs[r].res = 200 /\ reqs[r].user = "m1"
        /\ Cardinality(reqs[r].rows) = 2
        /\ Len(Conversations("m1")) = 2
        /\ \E k \in 1..2 : Conversations("m1")[k].unreadCount = 1
        /\ \E i \in 1..Len(messages) : /\ messages[i].sender_id = "m1"
                                        /\ messages[i].receiver_id # "m1"
                                        /\ ~messages[i].read

\* C27: no step removes a message or changes the sender, the receiver or the
\* content of one, and a read flag that is true stays true.
C27_MessagesAppendAndFlagOnly ==
    [][/\ Len(messages') >= Len(messages)
       /\ \A i \in 1..Len(messages) :
             /\ messages'[i].sender_id = messages[i].sender_id
             /\ messages'[i].receiver_id = messages[i].receiver_id
             /\ messages'[i].content = messages[i].content
             /\ messages[i].read => messages'[i].read]_vars

\* two messages with different content, the first read, and its receiver has
\* just asked again to mark it as read
C27_Witness ==
    /\ Len(messages) = 2
    /\ messages[1].read /\ messages[1].content # messages[2].content
    /\ \E r \in Reqs : /\ reqs[r].kind = "markRead" /\ reqs[r].res = 200
                        /\ reqs[r].id = 1 /\ reqs[r].user = messages[1].receiver_id

\* C28: a message becomes read only in a step of a request that has returned
\* it to its receiver (a thread read whose rows include it) or that marks it
\* explicitly (PATCH /messages/:id/read).
C28_MarkedOnlyIfReturned ==
    [][\A i \in 1..Len(messages) :
          (~messages[i].read /\ messages'[i].read) =>
             \E r \in Reqs :
                /\ InFlight(r) /\ reqs'[r] # reqs[r]
                /\ \/ reqs[r].kind = "getWith" /\ i \in reqs[r].rows
                   \/ reqs[r].kind = "markRead" /\ reqs[r].id = i]_vars

(* ---- documents ---- *)
\* who may read document doc: its uploader, the manager of its project, the
\* vendor of its bid, an admin
MayReadDocument(u, doc) ==
    \/ u \in Admins
    \/ u = doc.uploaded_by
    \/ \E p \in Projects : p = doc.project_id /\ ProjectExists(p) /\ projRows[p].manager_id = u
    \/ \E b \in 1..Len(bids) : b = doc.bid_id /\ bids[b].vendor_id = u

\* C23: a download link is issued only by the step that follows a passed
\* access check, and only to the uploader of the document, the manager of its
\* project, the vendor of its bid or an admin; a request for an existing
\* document by anyone else ends at once with 403 and no link.
C23_LinkOnlyAfterAccessCheck ==
    [][\A r \in Reqs :
          /\ (/\ reqs'[r].kind = "getDocument" /\ Moves(r)
               /\ ~InFlight(r)' /\ reqs'[r].rows # {})
                => /\ InFlight(r) /\ reqs[r].pc = "signUrl"
                   /\ DocExists(reqs[r].id)
                   /\ MayReadDocument(reqs[r].user, documents[reqs[r].id])
                   /\ reqs'[r].rows = {documents[reqs[r].id].storage_path}
          /\ (/\ Free(r) /\ Moves(r) /\ reqs'[r].kind = "getDocument"
               /\ DocExists(reqs'[r].id)
               /\ ~MayReadDocument(reqs'[r].user, documents[reqs'[r].id]))
                => ~InFlight(r)' /\ reqs'[r].res = 403 /\ reqs'[r].rows = {}]_vars

\* vendor v1 got a link for a document of their bid that is not linked to a
\* project
C23_Witness ==
    \E r \in Reqs :
        /\ reqs[r].kind = "getDocument" /\ reqs[r].res = 200 /\ reqs[r].user = "v1"
        /\ DocExists(reqs[r].id)
        /\ documents[reqs[r].id].bid_id = 1 /\ documents[reqs[r].id].project_id = 0
        /\ reqs[r].rows = {documents[reqs[r].id].storage_path}

\* C24: every document row is linked to a project or to a bid and never to both.
C24_DocumentHasOneParent ==
    \A i \in 1..Len(documents) :
        DocExists(i) => (documents[i].project_id # 0) # (documents[i].bid_id # 0)

\* a document of a bid exists, and an upload by the manager of project 1 that
\* named project 1 and that bid has just been refused
C24_Witness ==
    /\ \E i \in 1..Len(documents) : DocExists(i) /\ documents[i].bid_id = 1
    /\ \E r \in Reqs : /\ reqs[r].kind = "upload" /\ reqs[r].res = 403
                        /\ reqs[r].user = "m1"
                        /\ reqs[r].id = 1 /\ reqs[r].bidId = 1

\* C25: when an upload that has stored its payload ends with an error, the
\* payload is no longer in storage.
C25_FailedUploadLeavesNoPayload ==
    [][\A r \in Reqs :
          (/\ reqs[r].kind = "upload" /\ reqs[r].pc \in {"insertDocument", "cleanup"}
           /\ ~InFlight(r)' /\ reqs'[r].res >= 400)
            => reqs[r].created \notin storage']_vars

\* C26: a step of a notification request leaves every notification of another
\* user as it was and inserts none; a listing or count holds only rows of the
\* requester; and a request to mark or delete that names an existing
\* notification of another user is answered with a refusal.
NotificationKinds == {"listNotifications", "unreadCount", "markNotification",
                      "markAllNotifications", "deleteNotification",
                      "prismaMarkNotification", "prismaDeleteNotification"}

NamesNotification == {"markNotification", "deleteNotification",
                      "prismaMarkNotification", "prismaDeleteNotification"}

C26_OnlyOwnNotifications ==
    [][\A r \in Reqs :
         (reqs'[r] # reqs[r] /\ reqs'[r].kind \in NotificationKinds) =>
            /\ Len(notifications') = Len(notifications)
            /\ \A i \in 1..Len(notifications) :
                  (NotificationExists(i) /\ notifications[i].user_id # reqs'[r].user)
                     => notifications'[i] = notifications[i]
            /\ reqs'[r].kind \in {"listNotifications", "unreadCount"}
                  => \A i \in reqs'[r].rows : notifications[i].user_id = reqs'[r].user
            /\ (/\ reqs'[r].kind \in NamesNotification
                /\ reqs'[r].pc = "done"
                /\ NotificationExists(reqs'[r].id)
                /\ notifications[reqs'[r].id].user_id # reqs'[r].user)
                  => reqs'[r].res \in {403, 404, 500}]_vars

\* a request to mark the unread notification of another user has been refused
\* with 403, that notification is still unread, and a mark-all-read of the
\* user has been carried out on a notification of theirs
C26_Witness ==
    \E r, q \in Reqs :
       /\ reqs[r].kind = "markNotification" /\ reqs[r].res = 403
       /\ NotificationExists(reqs[r].id)
       /\ notifications[reqs[r].id].user_id # reqs[r].user
       /\ ~notifications[reqs[r].id].read
       /\ reqs[q].kind = "markAllNotifications" /\ reqs[q].res = 200
       /\ reqs[q].user = reqs[r].user
       /\ \E i \in 1..Len(notifications) : /\ NotificationExists(i)
                                           /\ notifications[i].user_id = reqs[q].user
                                           /\ notifications[i].read

\* C29: a connection is in the user room of the id it authenticated with and
\* in no other user room, whatever it sent with join_project, leave_project
\* and typing; and a 'message' or 'notification' event emitted for a user
\* reaches only connections authenticated as that user.
C29_EventsReachOnlyAddressee ==
    /\ \A k \in 1..Len(conns) : \A u \in TokenIds :
          UserRoom(u) \in conns[k].rooms => conns[k].user = u
    /\ delivered.event \in {"message", "notification"}
          => \A k \in delivered.got : conns[k].user = delivered.to

\* a 'message' event for m1 has reached a connection of m1 and has not reached
\* an open connection of someone else that sent join_project with the text
\* "user_m1"
C29_Witness ==
    /\ delivered.event = "message" /\ delivered.to = "m1" /\ delivered.got # {}
    /\ \E k \in 1..Len(conns) : /\ conns[k].open /\ conns[k].user # "m1"
                                /\ ProjectRoom("user_m1") \in conns[k].rooms
                                /\ k \notin delivered.got

\* C30: every socket the SocketService has created is the current one or has
\* been disconnected.
C30_AtMostOneLiveSocket ==
    \A i \in 1..Len(sockets) : i = socket \/ sockets[i] = "closed"

TypeOK ==
    /\ projStatus \in [Projects -> ProjectStatus \cup {""}]
    /\ Len(bids) <= MaxBids
    /\ \A i \in 1..Len(bids) : bids[i].status \in BidStatus

====
